---- MODULE Spec2Model ----
(***************************************************************************)
(* The expense-approval workflow of the Express/Mongoose backend           *)
(* (createApprovalChain, submit, approve, the settings and user stores)    *)
(* and the trim() of the client's approval dialog.                          *)
(*                                                                         *)
(* Arrays are sequences, so the code's 0-based currentApproverIndex i      *)
(* designates approvalChain[i + 1].                                        *)
(* A comment is a sequence of one-character strings, so that trim() is      *)
(* computed and not assumed.                                               *)
(***************************************************************************)
EXTENDS Integers, Sequences, FiniteSets, TLC

VARIABLES
    users,      \* the User collection, in creation order
    settings,   \* the Company 'settings' document's approvalRules, or Nothing
    expenses,   \* the Expense collection, in insertion order
    nextId,     \* number of ids uuidv4() has handed out, plus one
    now,        \* the clock Date.now() reads
    res,        \* status code of the last HTTP response (0: none yet)
    trail,      \* history: per expense id, the successful decisions so far
    built,      \* SpecChain: the value or error createApprovalChain gave;
                \* SpecQueue: the array getPending returned;
                \* SpecClient: the state of the client's setupApp
    reqs,       \* SpecConc, SpecTwo, SpecDelete: the requests in flight
    origin      \* SpecConc, SpecTwo: the store before any request ran;
                \* SpecFresh: the settings the expense was submitted under;
                \* SpecHundred: the store decided with the percentage rule off;
                \* SpecClient: the client's cached users, expenses, settings

vars == <<users, settings, expenses, nextId, now, res, trail, built, reqs, origin>>

\* null or undefined, where the value is otherwise a string (an id)
NULL == "null"
\* null or undefined, where the value is otherwise a document or an object
Nothing == [nothing |-> TRUE]
\* a null comment, where the value is otherwise a sequence of characters
NoComment == <<NULL>>
\* a null Date; the clock starts at 1
NoDate == 0

-----------------------------------------------------------------------------
(* Bounds of the model *)

\* expenses submitted in one run
MaxExpenses == 1
\* length of the longest sequentialChain an admin configures
MaxChain == 3

-----------------------------------------------------------------------------
(* Sequence helpers *)

\* the least element of a non-empty set of integers
Min(S) == CHOOSE x \in S : \A y \in S : x <= y

\* String.prototype.trim on a sequence of characters
RECURSIVE TrimLeft(_)
TrimLeft(c) == IF c # <<>> /\ Head(c) = " " THEN TrimLeft(Tail(c)) ELSE c

RECURSIVE TrimRight(_)
TrimRight(c) ==
    IF c # <<>> /\ c[Len(c)] = " " THEN TrimRight(SubSeq(c, 1, Len(c) - 1)) ELSE c

trim(c) == TrimRight(TrimLeft(c))

-----------------------------------------------------------------------------
(* Schemas *)

\* UserSchema.role
UserRoles == {"Admin", "Manager", "Employee"}

\* ExpenseSchema.status and approvalChain.status
StatusEnum == {"Pending", "Approved", "Rejected"}

\* the approvalRules getSettings creates when the collection is empty
DefaultSettings ==
    [ sequentialChain |-> << [role |-> "Manager",  name |-> "Direct Manager"],
                             [role |-> "Finance",  name |-> "Finance Reviewer"],
                             [role |-> "Director", name |-> "Director/CFO"] >>,
      percentageRule  |-> [enabled |-> TRUE, threshold |-> 60],
      hybridRule      |-> [enabled |-> FALSE, approverId |-> NULL] ]

-----------------------------------------------------------------------------
(* IEEE-754 binary64 arithmetic, as far as approve uses it.                 *)
(* A positive double is [hi, mid, lo, e]: its 53 significand bits cut into  *)
(* the leading 17 bits (hi, 2^16 <= hi < 2^17) and two limbs of 18 bits,    *)
(* and e the exponent of the leading bit; zero has hi = 0.                  *)

\* bits in the leading limb, and its least value 2^(HiBits - 1)
HiBits == 17
HiUnit == 65536
\* 2^18, the size of the two other limbs
Limb == 262144

Zero64 == [hi |-> 0, mid |-> 0, lo |-> 0, e |-> 0]

RECURSIVE Pow2(_)
Pow2(k) == IF k = 0 THEN 1 ELSE 2 * Pow2(k - 1)

\* the number of binary digits of a natural number
RECURSIVE BitLength(_)
BitLength(k) == IF k = 0 THEN 0 ELSE 1 + BitLength(k \div 2)

\* x plus one unit in the last place
NextUp(x) ==
    IF x.lo + 1 < Limb THEN [x EXCEPT !.lo = @ + 1]
    ELSE IF x.mid + 1 < Limb THEN [x EXCEPT !.lo = 0, !.mid = @ + 1]
    ELSE IF x.hi + 1 < 2 * HiUnit THEN [x EXCEPT !.lo = 0, !.mid = 0, !.hi = @ + 1]
    ELSE [hi |-> HiUnit, mid |-> 0, lo |-> 0, e |-> x.e + 1]

\* round to nearest, ties to even: x is the exact value cut to 53 bits, and
\* the part cut off is `dropped` out of `unit`
RoundNearestEven(x, dropped, unit) ==
    IF 2 * dropped > unit \/ (2 * dropped = unit /\ x.lo % 2 = 1) THEN NextUp(x) ELSE x

\* the least k with a * 2^k >= n, and the greatest k with n * 2^k <= a (0 if none)
RECURSIVE ShiftUp(_, _)
ShiftUp(a, n) == IF a >= n THEN 0 ELSE 1 + ShiftUp(2 * a, n)

RECURSIVE ShiftDown(_, _)
ShiftDown(a, n) == IF 2 * n > a THEN 0 ELSE 1 + ShiftDown(a, 2 * n)

\* a / n in binary64, for integers 0 <= a and 0 < n, both below 2^12:
\* long division, 16, 18 and 18 bits at a time, then the rounding
Div64(a, n) ==
    IF a = 0 THEN Zero64
    ELSE LET down == ShiftDown(a, n)
             up   == ShiftUp(a, n)
             num  == a * Pow2(up)
             den  == n * Pow2(down)
             t1   == (num - den) * HiUnit
             t2   == (t1 % den) * Limb
             t3   == (t2 % den) * Limb
         IN  RoundNearestEven([hi |-> HiUnit + t1 \div den, mid |-> t2 \div den,
                               lo |-> t3 \div den, e |-> down - up],
                              t3 % den, den)

\* x * c in binary64, for a double x and an integer 0 < c < 2^12: the exact
\* product limb by limb, cut to 53 bits, then the rounding
Mul64(x, c) ==
    IF x.hi = 0 THEN Zero64
    ELSE LET p3 == x.lo * c
             p2 == x.mid * c + p3 \div Limb
             p1 == x.hi * c + p2 \div Limb
             s  == BitLength(p1) - HiBits
             u  == Pow2(s)
             w  == Limb \div u
         IN  RoundNearestEven(
                 [hi  |-> p1 \div u,
                  mid |-> (p2 % Limb) \div u + (p1 % u) * w,
                  lo  |-> (p3 % Limb) \div u + ((p2 % Limb) % u) * w,
                  e   |-> x.e + s],
                 (p3 % Limb) % u, u)

\* the integer part of a double 0 <= x < 2^17
Floor64(x) == IF x.hi = 0 \/ x.e < 0 THEN 0 ELSE x.hi \div Pow2(HiBits - 1 - x.e)

\* x >= t for a double 0 <= x < 2^17 and an integer t
GreaterEq64(x, t) == Floor64(x) >= t

-----------------------------------------------------------------------------
(* Chain Builder: expenseController.createApprovalChain *)

\* allUsers.find(u => u.id === id)
findUserById(allUsers, id) ==
    IF \E i \in DOMAIN allUsers : allUsers[i].id = id
    THEN allUsers[Min({i \in DOMAIN allUsers : allUsers[i].id = id})]
    ELSE Nothing

\* faulty variant: the last user holding the role, not the first
findUserByRole_Last(allUsers, role) ==
    IF \E i \in DOMAIN allUsers : allUsers[i].role = role
    THEN allUsers[CHOOSE i \in DOMAIN allUsers :
                     /\ allUsers[i].role = role
                     /\ \A j \in DOMAIN allUsers : allUsers[j].role = role => j <= i]
    ELSE Nothing

\* allUsers.find(u => u.role === role)
findUserByRole(allUsers, role) ==
    IF \E i \in DOMAIN allUsers : allUsers[i].role = role
    THEN allUsers[Min({i \in DOMAIN allUsers : allUsers[i].role = role})]
    ELSE Nothing

\* the approver a template step resolves to, or Nothing
resolveApprover(step, submittingUser, allUsers) ==
    IF step.role = "Manager"
    THEN findUserById(allUsers, submittingUser.managerId)
    ELSE findUserByRole(allUsers, step.role)

\* a loop body that keeps a placeholder for a template step nobody resolves
pushStep_Placeholder(chain, step, approver) ==
    Append(chain, [ stepName   |-> step.name,
                    approverId |-> IF approver # Nothing THEN approver.id ELSE NULL,
                    status     |-> "Pending",
                    comment    |-> NoComment,
                    approvedAt |-> NoDate ])

\* faulty variant: the step is pushed with an empty comment instead of null
pushStep_EmptyComment(chain, step, approver) ==
    IF approver # Nothing
    THEN Append(chain, [ stepName   |-> step.name,
                         approverId |-> approver.id,
                         status     |-> "Pending",
                         comment    |-> <<>>,
                         approvedAt |-> NoDate ])
    ELSE chain

\* the body of the for loop: chain after the template step has been handled
pushStep(chain, step, approver) ==
    IF approver # Nothing
    THEN Append(chain, [ stepName   |-> step.name,
                         approverId |-> approver.id,
                         status     |-> "Pending",
                         comment    |-> NoComment,
                         approvedAt |-> NoDate ])
    ELSE chain

\* for (const step of sequentialChain) { ... } over the template steps lo..hi:
\* the steps pushed, in order.  The range is split in halves, so that the
\* evaluation stays shallow on long chains; the loop keeps no state between
\* iterations other than the chain it appends to.
RECURSIVE chainLoop(_, _, _, _, _)
chainLoop(sequentialChain, lo, hi, submittingUser, allUsers) ==
    IF lo > hi THEN <<>>
    ELSE IF lo = hi
    THEN pushStep(<<>>, sequentialChain[lo],
                  resolveApprover(sequentialChain[lo], submittingUser, allUsers))
    ELSE chainLoop(sequentialChain, lo, (lo + hi) \div 2, submittingUser, allUsers)
         \o chainLoop(sequentialChain, (lo + hi) \div 2 + 1, hi, submittingUser, allUsers)

\* faulty variant: an empty chain is returned instead of thrown
createApprovalChain_EmptyAllowed(expense, companySettings, allUsers) ==
    LET submittingUser == findUserById(allUsers, expense.userId)
    IN  IF submittingUser = Nothing
        THEN [error |-> "Submitting user not found.", chain |-> <<>>]
        ELSE [error |-> NULL,
              chain |-> chainLoop(companySettings.sequentialChain, 1,
                                  Len(companySettings.sequentialChain),
                                  submittingUser, allUsers)]

\* faulty variant: an unknown submitter is taken for a user without a manager
createApprovalChain_AnySubmitter(expense, companySettings, allUsers) ==
    LET found == findUserById(allUsers, expense.userId)
        submittingUser == IF found = Nothing
                          THEN [id |-> expense.userId, role |-> "Employee",
                                managerId |-> NULL]
                          ELSE found
        chain == chainLoop(companySettings.sequentialChain, 1,
                           Len(companySettings.sequentialChain),
                           submittingUser, allUsers)
    IN  IF Len(chain) = 0
        THEN [error |-> "Approval chain is empty.", chain |-> <<>>]
        ELSE [error |-> NULL, chain |-> chain]

\* the chain, or the Error thrown
createApprovalChain(expense, companySettings, allUsers) ==
    LET submittingUser == findUserById(allUsers, expense.userId)
    IN  IF submittingUser = Nothing
        THEN [error |-> "Submitting user not found.", chain |-> <<>>]
        ELSE LET chain == chainLoop(companySettings.sequentialChain, 1,
                                    Len(companySettings.sequentialChain),
                                    submittingUser, allUsers)
             IN  IF Len(chain) = 0
                 THEN [error |-> "Approval chain is empty.", chain |-> <<>>]
                 ELSE [error |-> NULL, chain |-> chain]

-----------------------------------------------------------------------------
(* Approval State Machine: expenseController.approve *)

\* Expense.findOne({ id: expenseId })
findOne(collection, expenseId) ==
    IF \E i \in DOMAIN collection : collection[i].id = expenseId
    THEN collection[Min({i \in DOMAIN collection : collection[i].id = expenseId})]
    ELSE Nothing

\* faulty variant: the time of the decision is also written to submittedAt
markStep_Restamp(expense, currentStepIndex, action, comment, t) ==
    [expense EXCEPT !.submittedAt = t,
                    !.approvalChain[currentStepIndex + 1] =
        [@ EXCEPT !.status = action, !.comment = comment, !.approvedAt = t]]

\* the three assignments to the current step
markStep(expense, currentStepIndex, action, comment, t) ==
    [expense EXCEPT !.approvalChain[currentStepIndex + 1] =
        [@ EXCEPT !.status = action, !.comment = comment, !.approvedAt = t]]

\* faulty variant: the override rule is never applied
applyHybridRule_Never(expense, rule, action, approverId) == expense

\* if (rule.hybridRule.enabled && rule.hybridRule.approverId === approverId && ...)
applyHybridRule(expense, rule, action, approverId) ==
    IF /\ rule.hybridRule.enabled
       /\ rule.hybridRule.approverId = approverId
       /\ action = "Approved"
    THEN [expense EXCEPT !.status = "Approved"]
    ELSE expense

\* faulty variant: the index is not moved to the next step
advance_Stuck(expense, currentStepIndex) ==
    IF expense.status = "Pending"
    THEN LET nextIndex == currentStepIndex + 1
         IN  IF nextIndex >= Len(expense.approvalChain)
             THEN [expense EXCEPT !.status = "Approved"]
             ELSE expense
    ELSE expense

\* faulty variant: nextIndex > length instead of nextIndex >= length
advance_OffByOne(expense, currentStepIndex) ==
    IF expense.status = "Pending"
    THEN LET nextIndex == currentStepIndex + 1
         IN  IF nextIndex > Len(expense.approvalChain)
             THEN [expense EXCEPT !.status = "Approved"]
             ELSE [expense EXCEPT !.currentApproverIndex = nextIndex]
    ELSE expense

\* if (expense.status === 'Pending') { const nextIndex = ...; ... }
advance(expense, currentStepIndex) ==
    IF expense.status = "Pending"
    THEN LET nextIndex == currentStepIndex + 1
         IN  IF nextIndex >= Len(expense.approvalChain)
             THEN [expense EXCEPT !.status = "Approved"]
             ELSE [expense EXCEPT !.currentApproverIndex = nextIndex]
    ELSE expense

\* faulty variant: every step that is not Rejected counts as Approved
approvedCount_NotRejected(expense) ==
    Cardinality({i \in DOMAIN expense.approvalChain :
                    expense.approvalChain[i].status # "Rejected"})

\* expense.approvalChain.filter(s => s.status === 'Approved').length
approvedCount(expense) ==
    Cardinality({i \in DOMAIN expense.approvalChain :
                    expense.approvalChain[i].status = "Approved"})

totalApproversInChain(expense) == Len(expense.approvalChain)

\* (approvedCount / totalApproversInChain) * 100, a double
percentageApproved(expense) ==
    Mul64(Div64(approvedCount(expense), totalApproversInChain(expense)), 100)

\* if (expense.status === 'Pending' && rule.percentageRule.enabled) { ... }
applyPercentageRule(expense, rule) ==
    IF /\ expense.status = "Pending"
       /\ rule.percentageRule.enabled
       /\ totalApproversInChain(expense) > 0
       /\ GreaterEq64(percentageApproved(expense), rule.percentageRule.threshold)
    THEN [expense EXCEPT !.status = "Approved"]
    ELSE expense

\* faulty variant: the index of a finalized expense is left where it was
pinIndex_Never(expense) == expense

\* if (expense.status !== 'Pending') expense.currentApproverIndex = length
pinIndex(expense) ==
    IF expense.status # "Pending"
    THEN [expense EXCEPT !.currentApproverIndex = Len(expense.approvalChain)]
    ELSE expense

\* the validation save() runs against ExpenseSchema before it writes
validates(doc) ==
    /\ doc.status \in StatusEnum
    /\ \A i \in DOMAIN doc.approvalChain : doc.approvalChain[i].status \in StatusEnum

\* faulty variant: the document is written although validation refuses it
saveAndRespond_Unvalidated(doc) ==
    IF validates(doc) THEN [code |-> 200, doc |-> doc] ELSE [code |-> 500, doc |-> doc]

\* the end of the try block: save() validates doc and writes it, then the
\* response; a refused document is not written and the catch answers 500
saveAndRespond(doc) ==
    IF validates(doc) THEN [code |-> 200, doc |-> doc] ELSE [code |-> 500, doc |-> Nothing]

\* faulty variant: a rejection by the override approver is treated as any other decision
decide_OverrideFirst(expense, rule, currentStepIndex, action, approverId) ==
    IF /\ action = "Rejected"
       /\ ~(rule # Nothing /\ rule.hybridRule.enabled
                /\ rule.hybridRule.approverId = approverId)
    THEN [code |-> 200, doc |-> [expense EXCEPT !.status = "Rejected"]]
    ELSE IF rule = Nothing
    THEN [code |-> 500, doc |-> Nothing]
    ELSE [code |-> 200,
          doc  |-> applyPercentageRule(
                       advance(applyHybridRule(expense, rule, action, approverId),
                               currentStepIndex),
                       rule)]

\* the action === 'Rejected' branch and its else
decide(expense, rule, currentStepIndex, action, approverId) ==
    IF action = "Rejected"
    THEN [code |-> 200, doc |-> [expense EXCEPT !.status = "Rejected"]]
    ELSE IF rule = Nothing
    THEN [code |-> 500, doc |-> Nothing]
    ELSE [code |-> 200,
          doc  |-> applyPercentageRule(
                       advance(applyHybridRule(expense, rule, action, approverId),
                               currentStepIndex),
                       rule)]

\* faulty variant: only an Approved expense counts as finalized
alreadyFinalized_ApprovedOnly(expense) == expense.status = "Approved"

\* if (expense.status !== 'Pending') return res.status(400)
alreadyFinalized(expense) == expense.status # "Pending"

\* faulty variant: the approver is not checked
wrongApprover_Never(currentStep, approverId) == FALSE

\* if (currentStep.approverId !== approverId) return res.status(403)
wrongApprover(currentStep, approverId) == currentStep.approverId # approverId

\* the handler from the two loads to the response: the response code, and the
\* document save() has written (Nothing when save() was not reached or
\* refused the document).  t is what Date.now() returns.
approve(rule, expense, action, comment, approverId, t) ==
    IF expense = Nothing THEN [code |-> 404, doc |-> Nothing]
    ELSE IF alreadyFinalized(expense) THEN [code |-> 400, doc |-> Nothing]
    ELSE LET currentStepIndex == expense.currentApproverIndex
         IN  IF currentStepIndex + 1 \notin DOMAIN expense.approvalChain
             THEN [code |-> 500, doc |-> Nothing]
             ELSE IF wrongApprover(expense.approvalChain[currentStepIndex + 1], approverId)
             THEN [code |-> 403, doc |-> Nothing]
             ELSE LET d == decide(markStep(expense, currentStepIndex, action, comment, t),
                                  rule, currentStepIndex, action, approverId)
                  IN  IF d.code # 200 THEN d ELSE saveAndRespond(pinIndex(d.doc))

\* one step of the chain after the $set of its modified paths
setModifiedStep(stored, loaded, doc) ==
    [stored EXCEPT
        !.status     = IF doc.status # loaded.status THEN doc.status ELSE @,
        !.comment    = IF doc.comment # loaded.comment THEN doc.comment ELSE @,
        !.approvedAt = IF doc.approvedAt # loaded.approvedAt THEN doc.approvedAt ELSE @]

\* Document.save() of a loaded document: a $set of the paths whose value
\* differs from the loaded one, applied to what the collection holds now
setModified(stored, loaded, doc) ==
    [path \in DOMAIN stored |->
        IF path = "approvalChain"
        THEN [i \in DOMAIN stored.approvalChain |->
                 setModifiedStep(stored.approvalChain[i], loaded.approvalChain[i],
                                 doc.approvalChain[i])]
        ELSE IF doc[path] # loaded[path] THEN doc[path] ELSE stored[path]]

\* faulty variant: the $set is applied without the filter on the document's id
save_NoFilter(collection, loaded, doc) ==
    [i \in DOMAIN collection |-> setModified(collection[i], loaded, doc)]

\* the collection after save() of doc, loaded as `loaded`
save(collection, loaded, doc) ==
    [i \in DOMAIN collection |->
        IF collection[i].id = doc.id THEN setModified(collection[i], loaded, doc)
        ELSE collection[i]]

-----------------------------------------------------------------------------
(* Submission: expenseController.submit *)

\* the base currency getSettings stores with the default settings
BaseCurrency == "USD"

\* new Expense({...expenseData, id: uuidv4(), baseCurrency, submittedAt: t})
\* with its chain and index: amount, currency and baseAmount are the body's
newExpense(id, expenseData, chain, t) ==
    [ id                   |-> id,
      userId               |-> expenseData.userId,
      submittedAt          |-> t,
      amount               |-> expenseData.amount,
      currency             |-> expenseData.currency,
      baseAmount           |-> expenseData.baseAmount,
      baseCurrency         |-> BaseCurrency,
      status               |-> IF expenseData.status = NULL THEN "Pending"
                               ELSE expenseData.status,
      currentApproverIndex |-> 0,
      approvalChain        |-> chain ]

\* the handler up to the response, at time t: the code and, with 201, the
\* stored document
submit(rule, allUsers, id, expenseData, t) ==
    IF rule = Nothing THEN [code |-> 500, doc |-> Nothing]
    ELSE LET c == createApprovalChain(expenseData, rule, allUsers)
         IN  IF c.error # NULL THEN [code |-> 500, doc |-> Nothing]
             ELSE LET doc == newExpense(id, expenseData, c.chain, t)
                  IN  IF validates(doc) THEN [code |-> 201, doc |-> doc]
                      ELSE [code |-> 500, doc |-> Nothing]

\* the body the client's submission form sends for userId: an amount in the
\* expense's currency and its conversion; status is a field no form sends
Body(userId, status) ==
    [ userId     |-> userId,
      status     |-> status,
      amount     |-> 100,
      currency   |-> "EUR",
      baseAmount |-> 110 ]

-----------------------------------------------------------------------------
(* The directory and the inputs of the model *)

\* a directory the signup and update endpoints produce: an Admin, a Manager
\* reporting to the Admin, an Employee reporting to the Manager
InitialUsers ==
    << [id |-> "u1", role |-> "Admin",    managerId |-> NULL],
       [id |-> "u2", role |-> "Manager",  managerId |-> "u1"],
       [id |-> "u3", role |-> "Employee", managerId |-> "u2"] >>

UserIds == {InitialUsers[i].id : i \in DOMAIN InitialUsers}

\* a configured chain of n steps: Manager, Admin, Manager, ...
Template(n) ==
    [i \in 1..n |-> [role |-> IF i % 2 = 1 THEN "Manager" ELSE "Admin",
                     name |-> "Step " \o ToString(i)]]

ChainTemplates == {Template(n) : n \in 1..MaxChain}

PercentageRules ==
    { [enabled |-> FALSE, threshold |-> 60],
      [enabled |-> TRUE,  threshold |-> 60],
      [enabled |-> TRUE,  threshold |-> 100] }

HybridRules ==
    { [enabled |-> FALSE, approverId |-> NULL],
      [enabled |-> TRUE,  approverId |-> "u1"] }

\* the approvalRules an admin can PUT
Policies ==
    [sequentialChain : ChainTemplates, percentageRule : PercentageRules,
     hybridRule : HybridRules]

\* req.body.action: the two decisions, and two strings the handler does not expect
Actions == {"Approved", "Rejected", "Pending", "Escalated"}

\* req.body.comment: empty, and a reason
Comments == {<<>>, <<"o", "k">>}

\* req.body.approverId: a user, or absent
ApproverIds == UserIds \cup {NULL}

\* req.body.userId of a submission: a user, or an id the directory does not hold
SubmitterIds == UserIds \cup {"u0"}

\* req.body.status of a submission: absent, or a string
SubmitStatuses == {NULL, "Approved", "Rejected", "Draft"}

ExpenseIds == 1..MaxExpenses

-----------------------------------------------------------------------------
(* The server, one request at a time *)

Response(op, code) == [op |-> op, code |-> code]

Init ==
    /\ users = InitialUsers
    /\ settings = Nothing
    /\ expenses = <<>>
    /\ nextId = 1
    /\ now = 1
    /\ res = Response("none", 0)
    /\ trail = [id \in ExpenseIds |-> [n |-> 0, plain |-> FALSE]]
    /\ built = Nothing
    /\ reqs = <<>>
    /\ origin = Nothing

\* companyController.getSettings: creates the default settings when none exist
GetSettings ==
    /\ settings' = IF settings = Nothing THEN DefaultSettings ELSE settings
    /\ res' = Response("getSettings", 200)
    /\ UNCHANGED <<users, expenses, nextId, now, trail, built, reqs, origin>>

\* companyController.updateSettings with approvalRules p in the body
UpdateSettings(p) ==
    /\ settings' = p
    /\ res' = Response("updateSettings", 200)
    /\ UNCHANGED <<users, expenses, nextId, now, trail, built, reqs, origin>>

\* POST /api/expenses/submit
Submit(userId, status) ==
    /\ nextId <= MaxExpenses
    /\ LET r == submit(settings, users, nextId, Body(userId, status), now)
       IN  /\ res' = Response("submit", r.code)
           /\ IF r.doc # Nothing
              THEN /\ expenses' = Append(expenses, r.doc)
                   /\ nextId' = nextId + 1
                   /\ trail' = [trail EXCEPT ![nextId] =
                                   [n |-> 0, plain |-> r.doc.status = "Pending"]]
              ELSE UNCHANGED <<expenses, nextId, trail>>
    /\ UNCHANGED <<users, settings, now, built, reqs, origin>>

\* faulty variant: the decision is taken under the settings the expense was
\* submitted under (kept in origin) instead of the stored ones
Approve_PolicyAtSubmission(expenseId, action, comment, approverId) ==
    LET expense == findOne(expenses, expenseId)
        rule == IF origin = Nothing THEN settings ELSE origin
        r == approve(rule, expense, action, comment, approverId, now)
    IN  /\ res' = Response("approve", r.code)
        /\ IF r.doc # Nothing
           THEN /\ expenses' = save(expenses, expense, r.doc)
                /\ now' = now + 1
                /\ trail' = [trail EXCEPT ![expenseId] =
                                [n     |-> @.n + 1,
                                 plain |-> /\ @.plain
                                           /\ action = "Approved"
                                           /\ ~rule.percentageRule.enabled
                                           /\ ~rule.hybridRule.enabled]]
           ELSE UNCHANGED <<expenses, now, trail>>
        /\ UNCHANGED <<users, settings, nextId, built, reqs, origin>>

\* PUT /api/expenses/approve/:expenseId, run from the request to the response.
\* trail counts the decisions written, and keeps whether all of them were
\* Approved decisions taken with both rules disabled.
Approve(expenseId, action, comment, approverId) ==
    LET expense == findOne(expenses, expenseId)
        r == approve(settings, expense, action, comment, approverId, now)
    IN  /\ res' = Response("approve", r.code)
        /\ IF r.doc # Nothing
           THEN /\ expenses' = save(expenses, expense, r.doc)
                /\ now' = now + 1
                /\ trail' = [trail EXCEPT ![expenseId] =
                                [n     |-> @.n + 1,
                                 plain |-> /\ @.plain
                                           /\ action = "Approved"
                                           /\ ~settings.percentageRule.enabled
                                           /\ ~settings.hybridRule.enabled]]
           ELSE UNCHANGED <<expenses, now, trail>>
        /\ UNCHANGED <<users, settings, nextId, built, reqs, origin>>

Next ==
    \/ GetSettings
    \/ \E p \in Policies : UpdateSettings(p)
    \/ \E userId \in SubmitterIds, status \in SubmitStatuses : Submit(userId, status)
    \/ \E expenseId \in ExpenseIds, action \in Actions, comment \in Comments,
          approverId \in ApproverIds : Approve(expenseId, action, comment, approverId)

Spec == Init /\ [][Next]_vars

-----------------------------------------------------------------------------
(* Vocabulary of the claims *)

\* a step as createApprovalChain leaves it
Untouched(step) ==
    step.status = "Pending" /\ step.comment = NoComment /\ step.approvedAt = NoDate

\* the stored expense is Pending and approverId is the approver of its current step
IsCurrentApprover(expense, approverId) ==
    /\ expense # Nothing
    /\ expense.status = "Pending"
    /\ expense.currentApproverIndex + 1 \in DOMAIN expense.approvalChain
    /\ expense.approvalChain[expense.currentApproverIndex + 1].approverId = approverId

\* every step after position j (1-based) is untouched
LaterUntouched(expense, j) ==
    \A k \in (j + 1)..Len(expense.approvalChain) : Untouched(expense.approvalChain[k])

RulesDisabled ==
    /\ settings # Nothing
    /\ ~settings.percentageRule.enabled
    /\ ~settings.hybridRule.enabled

-----------------------------------------------------------------------------
(* Claims about the decisions of one request at a time *)

\* C1: with both rules disabled, an expense submitted as Pending whose k
\* decisions so far were all Approved decisions of the current approver is
\* Pending with currentApproverIndex = k while k is below the chain length N,
\* and is Approved with currentApproverIndex = N once k = N.
C1_SequentialApproval ==
    \A i \in DOMAIN expenses :
        LET e == expenses[i]
            N == Len(e.approvalChain)
            k == trail[e.id].n
        IN  trail[e.id].plain =>
                /\ k < N => e.status = "Pending" /\ e.currentApproverIndex = k
                /\ k >= N => k = N /\ e.status = "Approved" /\ e.currentApproverIndex = N

\* a chain of MaxChain steps approved step by step, the rules disabled throughout
C1_Witness ==
    \E i \in DOMAIN expenses :
        /\ trail[expenses[i].id].plain
        /\ trail[expenses[i].id].n = MaxChain
        /\ Len(expenses[i].approvalChain) = MaxChain
        /\ expenses[i].status = "Approved"

\* C2: a Rejected decision of the current approver, whatever the policy, sets
\* the current step and the expense to Rejected and leaves every later step
\* Pending with no comment and no timestamp.
C2_RejectionIsFinal ==
    [][\A id \in ExpenseIds, c \in Comments, a \in ApproverIds :
          LET e == findOne(expenses, id)
          IN  ( /\ res'.op = "approve"
                /\ IsCurrentApprover(e, a)
                /\ Approve(id, "Rejected", c, a) ) =>
                  LET f == findOne(expenses', id)
                      j == e.currentApproverIndex + 1
                  IN  /\ f.status = "Rejected"
                      /\ f.approvalChain[j].status = "Rejected"
                      /\ LaterUntouched(f, j)]_vars

\* the override approver has just rejected a step that is not the last one,
\* with both rules enabled
C2_Witness ==
    /\ res = Response("approve", 200)
    /\ settings # Nothing
    /\ settings.hybridRule.enabled
    /\ settings.percentageRule.enabled
    /\ \E i \in DOMAIN expenses :
           \E j \in 1..(Len(expenses[i].approvalChain) - 1) :
               /\ expenses[i].status = "Rejected"
               /\ expenses[i].approvalChain[j].status = "Rejected"
               /\ expenses[i].approvalChain[j].approverId = settings.hybridRule.approverId
               /\ expenses[i].approvalChain[j].approvedAt = now - 1

\* C3: with the override rule enabled, an Approved decision of the override
\* approver on the current step, at any position, sets the expense to Approved
\* and leaves every later step Pending with no comment and no timestamp.
C3_OverrideApproves ==
    [][\A id \in ExpenseIds, c \in Comments, a \in ApproverIds :
          LET e == findOne(expenses, id)
          IN  ( /\ res'.op = "approve"
                /\ IsCurrentApprover(e, a)
                /\ settings # Nothing
                /\ settings.hybridRule.enabled
                /\ settings.hybridRule.approverId = a
                /\ Approve(id, "Approved", c, a) ) =>
                  LET f == findOne(expenses', id)
                      j == e.currentApproverIndex + 1
                  IN  /\ f.status = "Approved"
                      /\ f.approvalChain[j].status = "Approved"
                      /\ LaterUntouched(f, j)]_vars

\* the override approver has just approved a step in the middle of a chain,
\* the percentage rule being disabled
C3_Witness ==
    /\ res = Response("approve", 200)
    /\ settings # Nothing
    /\ settings.hybridRule.enabled
    /\ ~settings.percentageRule.enabled
    /\ \E i \in DOMAIN expenses :
           \E j \in 2..(Len(expenses[i].approvalChain) - 1) :
               /\ expenses[i].status = "Approved"
               /\ expenses[i].approvalChain[j].status = "Approved"
               /\ expenses[i].approvalChain[j].approverId = settings.hybridRule.approverId
               /\ expenses[i].approvalChain[j].approvedAt = now - 1
               /\ Untouched(expenses[i].approvalChain[j + 1])

\* C5: a decision on a Pending expense by anyone but the approver of the
\* current step is answered 403 (WrongApprover), whatever the action, and
\* leaves the stored expenses as they were.
C5_WrongApprover ==
    [][\A id \in ExpenseIds, act \in Actions, c \in Comments, a \in ApproverIds :
          LET e == findOne(expenses, id)
          IN  ( /\ res'.op = "approve"
                /\ e # Nothing
                /\ e.status = "Pending"
                /\ ~IsCurrentApprover(e, a)
                /\ Approve(id, act, c, a) ) =>
                  res'.code = 403 /\ expenses' = expenses]_vars

\* a decision has just been refused with 403 while the expense is Pending
C5_Witness ==
    /\ res = Response("approve", 403)
    /\ \E i \in DOMAIN expenses :
           expenses[i].status = "Pending" /\ expenses[i].currentApproverIndex > 0

\* C6: a decision on an expense that is Approved or Rejected is answered 400
\* (AlreadyFinalized), whoever sends it and whatever it says, and leaves the
\* stored expenses as they were.
C6_AlreadyFinalized ==
    [][\A id \in ExpenseIds, act \in Actions, c \in Comments, a \in ApproverIds :
          LET e == findOne(expenses, id)
          IN  ( /\ res'.op = "approve"
                /\ e # Nothing
                /\ e.status \in {"Approved", "Rejected"}
                /\ Approve(id, act, c, a) ) =>
                  res'.code = 400 /\ expenses' = expenses]_vars

\* a decision has just been refused with 400 on an expense a decision finalized
C6_Witness ==
    /\ res = Response("approve", 400)
    /\ \E i \in DOMAIN expenses :
           /\ expenses[i].status = "Rejected"
           /\ trail[expenses[i].id].n > 0

\* C7: a Rejected decision of the current approver with an empty or blank
\* comment is refused and leaves the stored expenses as they were.
C7_RejectionNeedsComment ==
    [][\A id \in ExpenseIds, c \in Comments, a \in ApproverIds :
          ( /\ res'.op = "approve"
            /\ IsCurrentApprover(findOne(expenses, id), a)
            /\ trim(c) = <<>>
            /\ Approve(id, "Rejected", c, a) ) =>
              res'.code # 200 /\ expenses' = expenses]_vars

\* C8: a decision that is answered with an error leaves the stored expenses
\* exactly as they were.
C8_ErrorsChangeNothing ==
    [][(res'.op = "approve" /\ res'.code # 200) => expenses' = expenses]_vars

\* a decision has just been answered 500 on a Pending expense that a
\* decision had already advanced
C8_Witness ==
    /\ res = Response("approve", 500)
    /\ \E i \in DOMAIN expenses :
           expenses[i].status = "Pending" /\ expenses[i].currentApproverIndex > 0

-----------------------------------------------------------------------------
(* The percentage rule on long chains: one expense of the Employee u3 under *)
(* a chain of n Manager steps, approved step by step by the Manager u2      *)

\* lengths of the configured chain, and thresholds of the percentage rule
PctChainLengths == {3, 50}
PctThresholds == {29, 57, 58, 60}

ManagerChain(n) ==
    [i \in 1..n |-> [role |-> "Manager", name |-> "Step " \o ToString(i)]]

PctPolicies ==
    [sequentialChain : {ManagerChain(n) : n \in PctChainLengths},
     percentageRule  : {[enabled |-> TRUE, threshold |-> t] : t \in PctThresholds},
     hybridRule      : {[enabled |-> FALSE, approverId |-> NULL]}]

InitPct ==
    /\ users = InitialUsers
    /\ settings \in PctPolicies
    /\ expenses = <<>>
    /\ nextId = 1
    /\ now = 1
    /\ res = Response("none", 0)
    /\ trail = [id \in ExpenseIds |-> [n |-> 0, plain |-> FALSE]]
    /\ built = Nothing
    /\ reqs = <<>>
    /\ origin = Nothing

NextPct ==
    \/ Submit("u3", NULL)
    \/ Approve(1, "Approved", <<>>, "u2")

SpecPct == InitPct /\ [][NextPct]_vars

\* C4: with the percentage rule enabled with threshold T and the override rule
\* not firing, an Approved decision of the current approver on a step that is
\* not the last one finalizes the expense as Approved if and only if
\* approvedCount * 100 >= T * chainLength, counting the step just decided;
\* otherwise the expense stays Pending.
C4_PercentageThreshold ==
    [][\A id \in ExpenseIds, c \in Comments, a \in ApproverIds :
          LET e == findOne(expenses, id)
          IN  ( /\ res'.op = "approve"
                /\ IsCurrentApprover(e, a)
                /\ e.currentApproverIndex + 1 < Len(e.approvalChain)
                /\ settings # Nothing
                /\ settings.percentageRule.enabled
                /\ ~(settings.hybridRule.enabled /\ settings.hybridRule.approverId = a)
                /\ Approve(id, "Approved", c, a) ) =>
                  LET f == findOne(expenses', id)
                      met == approvedCount(f) * 100 >=
                                 settings.percentageRule.threshold * Len(f.approvalChain)
                  IN  /\ met => f.status = "Approved"
                      /\ ~met => f.status = "Pending"]_vars

-----------------------------------------------------------------------------
(* The Chain Builder alone, over every small directory and configured chain *)

MaxUsers == 2

\* the roles a configured step can name; no user can hold Finance
TemplateRoles == {"Manager", "Admin", "Finance"}

\* users u1..un in insertion order, any role, any manager reference
Directories ==
    UNION { { [i \in 1..n |-> [id        |-> "u" \o ToString(i),
                               role      |-> roles[i],
                               managerId |-> managers[i]]] :
                  roles \in [1..n -> UserRoles],
                  managers \in [1..n -> {NULL, "u1", "u2", "u9"}] } :
            n \in 0..MaxUsers }

\* configured chains of 1..MaxChain steps, named by position
RoleTemplates ==
    UNION { { [i \in 1..n |-> [role |-> roles[i], name |-> "Step " \o ToString(i)]] :
                  roles \in [1..n -> TemplateRoles] } :
            n \in 1..MaxChain }

InitChain ==
    /\ users \in Directories
    /\ settings \in [sequentialChain : RoleTemplates,
                     percentageRule  : {[enabled |-> FALSE, threshold |-> 60]},
                     hybridRule      : {[enabled |-> FALSE, approverId |-> NULL]}]
    /\ expenses = <<>>
    /\ nextId = 1
    /\ now = 1
    /\ res = Response("none", 0)
    /\ trail = [id \in ExpenseIds |-> [n |-> 0, plain |-> FALSE]]
    /\ built = Nothing
    /\ reqs = <<>>
    /\ origin = Nothing

\* createApprovalChain for an expense of userId, with what it returns or throws
BuildChain(userId) ==
    /\ built' = [userId |-> userId,
                 result |-> createApprovalChain([userId |-> userId], settings, users)]
    /\ UNCHANGED <<users, settings, expenses, nextId, now, res, trail, reqs, origin>>

NextChain == \E userId \in {"u1", "u2", "u3"} : BuildChain(userId)

SpecChain == InitChain /\ [][NextChain]_vars

\* the positions of the configured steps that resolve to a user for this submitter
Resolving(userId) ==
    {i \in DOMAIN settings.sequentialChain :
        resolveApprover(settings.sequentialChain[i],
                        findUserById(users, userId), users) # Nothing}

\* the k-th smallest member of a set of positions
Nth(S, k) == CHOOSE i \in S : Cardinality({j \in S : j <= i}) = k

\* C10: for a submitter of the directory and a configured chain of which at
\* least one step resolves, createApprovalChain returns a chain with one step
\* per resolving template step, in the order of the templates, each carrying
\* the template's name and the id of the resolved approver, never a null one.
C10_ChainBuilder ==
    (built # Nothing /\ findUserById(users, built.userId) # Nothing
                     /\ Resolving(built.userId) # {}) =>
        LET R == Resolving(built.userId)
            chain == built.result.chain
            submitter == findUserById(users, built.userId)
        IN  /\ built.result.error = NULL
            /\ Len(chain) = Cardinality(R)
            /\ \A k \in 1..Len(chain) :
                  LET step == settings.sequentialChain[Nth(R, k)]
                  IN  /\ chain[k].stepName = step.name
                      /\ chain[k].approverId = resolveApprover(step, submitter, users).id
                      /\ chain[k].approverId # NULL
                      /\ chain[k].status = "Pending"

\* a chain built from a configured chain whose middle step does not resolve
C10_Witness ==
    /\ built # Nothing
    /\ built.result.error = NULL
    /\ Len(settings.sequentialChain) = 3
    /\ Resolving(built.userId) = {1, 3}
    /\ Len(built.result.chain) = 2
    /\ built.result.chain[1].approverId # built.result.chain[2].approverId

-----------------------------------------------------------------------------
(* Decisions in flight together.  The handler gives up control at each of   *)
(* its three awaits: Company.findOne, Expense.findOne and expense.save; what *)
(* lies between two awaits runs without interruption.  Every request is on   *)
(* expense 1, submitted by the Employee u3.                                  *)

MaxRequests == 2

ConcPolicies ==
    [sequentialChain : {Template(2), Template(3)},
     percentageRule  : {[enabled |-> FALSE, threshold |-> 60]},
     hybridRule      : {[enabled |-> FALSE, approverId |-> NULL]}]

ConcActions == {"Approved", "Rejected"}
ConcApprovers == {"u1", "u2"}
ConcComment == <<"o", "k">>

InitConc ==
    /\ users = InitialUsers
    /\ settings \in ConcPolicies
    /\ expenses = <<>>
    /\ nextId = 1
    /\ now = 1
    /\ res = Response("none", 0)
    /\ trail = [id \in ExpenseIds |-> [n |-> 0, plain |-> FALSE]]
    /\ built = Nothing
    /\ reqs = <<>>
    /\ origin = Nothing

\* a PUT /api/expenses/approve/1 reaches the handler, which awaits Company.findOne
Arrive(action, approverId) ==
    /\ expenses # <<>>
    /\ Len(reqs) < MaxRequests
    /\ reqs' = Append(reqs, [action |-> action, approverId |-> approverId,
                             pc |-> "settings", rule |-> Nothing, loaded |-> Nothing,
                             out |-> [code |-> 0, doc |-> Nothing]])
    /\ origin' = IF reqs = <<>> THEN expenses[1] ELSE origin
    /\ UNCHANGED <<users, settings, expenses, nextId, now, res, trail, built>>

\* Company.findOne resolves; the handler awaits Expense.findOne
LoadSettings(r) ==
    /\ reqs[r].pc = "settings"
    /\ reqs' = [reqs EXCEPT ![r].pc = "expense", ![r].rule = settings]
    /\ UNCHANGED <<users, settings, expenses, nextId, now, res, trail, built, origin>>

\* Expense.findOne resolves; the handler runs on its copy up to a return or
\* to the save() it awaits
LoadExpense(r) ==
    /\ reqs[r].pc = "expense"
    /\ LET expense == findOne(expenses, 1)
           out == approve(reqs[r].rule, expense, reqs[r].action, ConcComment,
                          reqs[r].approverId, now)
       IN  /\ reqs' = [reqs EXCEPT ![r].pc = IF out.doc = Nothing THEN "done" ELSE "save",
                                   ![r].loaded = expense,
                                   ![r].out = out]
           /\ res' = IF out.doc = Nothing THEN Response("approve", out.code) ELSE res
    /\ now' = now + 1
    /\ UNCHANGED <<users, settings, expenses, nextId, trail, built, origin>>

\* expense.save() writes the modified paths; the handler answers 200
Save(r) ==
    /\ reqs[r].pc = "save"
    /\ expenses' = save(expenses, reqs[r].loaded, reqs[r].out.doc)
    /\ reqs' = [reqs EXCEPT ![r].pc = "done"]
    /\ res' = Response("approve", reqs[r].out.code)
    /\ UNCHANGED <<users, settings, nextId, now, trail, built, origin>>

NextConc ==
    \/ Submit("u3", NULL)
    \/ \E action \in ConcActions, approverId \in ConcApprovers : Arrive(action, approverId)
    \/ \E r \in DOMAIN reqs : LoadSettings(r)
    \/ \E r \in DOMAIN reqs : LoadExpense(r)
    \/ \E r \in DOMAIN reqs : Save(r)

SpecConc == InitConc /\ [][NextConc]_vars

\* an expense without the times of its decisions
Timeless(expense) ==
    [expense EXCEPT !.approvalChain =
        [i \in DOMAIN expense.approvalChain |->
            [expense.approvalChain[i] EXCEPT !.approvedAt = NoDate]]]

\* the expense after one request handled from load to save with nothing in between
Alone(expense, rq) ==
    LET out == approve(settings, expense, rq.action, ConcComment, rq.approverId, now)
    IN  IF out.doc = Nothing THEN expense ELSE out.doc

\* the expense after the requests handled one after the other in the given order
RECURSIVE OneByOne(_, _)
OneByOne(expense, order) ==
    IF order = <<>> THEN expense
    ELSE OneByOne(Alone(expense, reqs[Head(order)]), Tail(order))

Orders ==
    {o \in [1..Len(reqs) -> 1..Len(reqs)] : \A i, j \in 1..Len(reqs) : o[i] = o[j] => i = j}

AllDone == Len(reqs) = MaxRequests /\ \A r \in DOMAIN reqs : reqs[r].pc = "done"

\* C9: once the decisions on an expense have all been answered, the persisted
\* expense is, up to the times of the decisions, what handling them one
\* after the other in some order leaves.
C9_DecisionsSerialized ==
    AllDone => \E o \in Orders :
                   Timeless(expenses[1]) = Timeless(OneByOne(origin, o))

-----------------------------------------------------------------------------
(* Submission over every small directory and configured chain, the empty    *)
(* chain included, with what the Chain Builder gave kept in `built`         *)

\* configured chains of 0..MaxChain steps
SubmitTemplates == RoleTemplates \cup {<<>>}

InitSubmit ==
    /\ users \in Directories
    /\ settings \in [sequentialChain : SubmitTemplates,
                     percentageRule  : {[enabled |-> FALSE, threshold |-> 60]},
                     hybridRule      : {[enabled |-> FALSE, approverId |-> NULL]}]
    /\ expenses = <<>>
    /\ nextId = 1
    /\ now = 1
    /\ res = Response("none", 0)
    /\ trail = [id \in ExpenseIds |-> [n |-> 0, plain |-> FALSE]]
    /\ built = Nothing
    /\ reqs = <<>>
    /\ origin = Nothing

\* POST /api/expenses/submit, keeping what createApprovalChain returned or threw
SubmitBuilt(userId, status) ==
    /\ nextId <= MaxExpenses
    /\ LET r == submit(settings, users, nextId, Body(userId, status), now)
       IN  /\ res' = Response("submit", r.code)
           /\ IF r.doc # Nothing
              THEN /\ expenses' = Append(expenses, r.doc)
                   /\ nextId' = nextId + 1
              ELSE UNCHANGED <<expenses, nextId>>
    /\ built' = [userId |-> userId,
                 result |-> createApprovalChain([userId |-> userId], settings, users)]
    /\ UNCHANGED <<users, settings, now, trail, reqs, origin>>

NextSubmit ==
    \E userId \in {"u1", "u2", "u3"}, status \in {NULL, "Approved"} :
        SubmitBuilt(userId, status)

SpecSubmit == InitSubmit /\ [][NextSubmit]_vars

\* C11: a submission by a user of the directory under a configured chain of
\* which no step resolves makes createApprovalChain throw the empty-chain
\* error, is answered with an error, and stores no expense, whatever status
\* the request asks for.
C11_EmptyChainRejected ==
    [][\A userId \in {"u1", "u2", "u3"}, status \in {NULL, "Approved"} :
          ( /\ findUserById(users, userId) # Nothing
            /\ Resolving(userId) = {}
            /\ SubmitBuilt(userId, status) ) =>
              /\ built'.result.error = "Approval chain is empty."
              /\ res' = Response("submit", 500)
              /\ expenses' = expenses]_vars

\* a submission by a user without a manager, under a chain of Manager steps
\* only, has just been refused for its empty chain
C11_Witness ==
    /\ built # Nothing
    /\ findUserById(users, built.userId) # Nothing
    /\ findUserById(users, built.userId).managerId = NULL
    /\ Len(settings.sequentialChain) > 0
    /\ \A i \in DOMAIN settings.sequentialChain : settings.sequentialChain[i].role = "Manager"
    /\ built.result.error = "Approval chain is empty."
    /\ res = Response("submit", 500)
    /\ expenses = <<>>

\* C12: a submission whose userId is not the id of a user of the directory
\* makes createApprovalChain throw the submitter-not-found error, under any
\* configured chain, and stores no expense.
C12_SubmitterNotFound ==
    [][\A userId \in {"u1", "u2", "u3"}, status \in {NULL, "Approved"} :
          ( /\ \A i \in DOMAIN users : users[i].id # userId
            /\ SubmitBuilt(userId, status) ) =>
              /\ built'.result.error = "Submitting user not found."
              /\ res' = Response("submit", 500)
              /\ expenses' = expenses]_vars

\* a submission of an unknown user has just been refused although a step of
\* the configured chain names a role that a user of the directory holds
C12_Witness ==
    /\ built # Nothing
    /\ \A i \in DOMAIN users : users[i].id # built.userId
    /\ \E i \in DOMAIN users, j \in DOMAIN settings.sequentialChain :
           users[i].role = settings.sequentialChain[j].role
    /\ built.result.error = "Submitting user not found."
    /\ res = Response("submit", 500)
    /\ expenses = <<>>

-----------------------------------------------------------------------------
(* The approver of each step of a built chain *)

\* C13: in a chain createApprovalChain returns, the step built from a
\* Manager template step has as approverId the submitter's managerId, which
\* is the id of a user of the directory, and the step built from a template
\* step of any other role has as approverId the id of the first user of the
\* directory, in the order it is supplied, whose role is that role.
C13_ApproverResolution ==
    (built # Nothing /\ built.result.error = NULL) =>
        \A k \in DOMAIN built.result.chain, i \in DOMAIN settings.sequentialChain :
            settings.sequentialChain[i].name = built.result.chain[k].stepName =>
                LET approverId == built.result.chain[k].approverId
                    role == settings.sequentialChain[i].role
                IN  IF role = "Manager"
                    THEN /\ \E s \in DOMAIN users :
                                users[s].id = built.userId /\ users[s].managerId = approverId
                         /\ \E u \in DOMAIN users : users[u].id = approverId
                    ELSE \E u \in DOMAIN users :
                             /\ users[u].role = role
                             /\ users[u].id = approverId
                             /\ \A v \in 1..(u - 1) : users[v].role # role

\* a chain with a Manager step and an Admin step, built over a directory of
\* two Admins, the submitter reporting to the second one
C13_Witness ==
    /\ built # Nothing
    /\ built.result.error = NULL
    /\ Len(users) = 2
    /\ users[1].role = "Admin" /\ users[2].role = "Admin"
    /\ \E s \in DOMAIN users : users[s].id = built.userId /\ users[s].managerId = "u2"
    /\ \E k, l \in DOMAIN built.result.chain :
           /\ built.result.chain[k].approverId = "u2"
           /\ built.result.chain[l].approverId = "u1"

-----------------------------------------------------------------------------
(* Invariants of the stored expenses *)

\* C14: a stored expense of status Pending has 0 <= currentApproverIndex <
\* chain length, every step before the index Approved, and the step at the
\* index and every later one Pending with no comment and no timestamp.
C14_PendingShape ==
    \A e \in DOMAIN expenses :
        expenses[e].status = "Pending" =>
            LET idx == expenses[e].currentApproverIndex
                chain == expenses[e].approvalChain
            IN  /\ 0 <= idx /\ idx < Len(chain)
                /\ \A i \in DOMAIN chain :
                       IF i <= idx THEN chain[i].status = "Approved"
                       ELSE Untouched(chain[i])

\* C15: a stored expense of status Approved or Rejected has
\* currentApproverIndex equal to the length of its approval chain.
C15_FinalizedIndexPinned ==
    \A e \in DOMAIN expenses :
        expenses[e].status \in {"Approved", "Rejected"} =>
            expenses[e].currentApproverIndex = Len(expenses[e].approvalChain)

-----------------------------------------------------------------------------
(* User management: authController.signup, userController.update and        *)
(* userController.delete.  Every signup comes with a name, a password and   *)
(* an email no user has yet.                                                *)

MaxAccounts == 2

\* the _id of the k-th account of the model, as a string
UserId(k) == "u" \o ToString(k)

idsOf(allUsers) == {allUsers[i].id : i \in DOMAIN allUsers}

\* the role enum validator of UserSchema, run by save()
validatesUser(user) == user.role \in UserRoles

\* faulty variant: signup stores the user without the role validator
signup_Unvalidated(allUsers, id, role, managerId, isAdminCreation) ==
    IF role = NULL THEN [code |-> 400, users |-> allUsers]
    ELSE IF Len(allUsers) = 0 /\ role # "Admin" THEN [code |-> 403, users |-> allUsers]
    ELSE IF Len(allUsers) # 0 /\ ~isAdminCreation THEN [code |-> 403, users |-> allUsers]
    ELSE [code |-> 201,
          users |-> Append(allUsers, [id |-> id, role |-> role, managerId |-> managerId])]

\* authController.signup: the response code and the User collection after it
signup(allUsers, id, role, managerId, isAdminCreation) ==
    IF role = NULL THEN [code |-> 400, users |-> allUsers]
    ELSE IF Len(allUsers) = 0 /\ role # "Admin" THEN [code |-> 403, users |-> allUsers]
    ELSE IF Len(allUsers) # 0 /\ ~isAdminCreation THEN [code |-> 403, users |-> allUsers]
    ELSE LET newUser == [id |-> id, role |-> role, managerId |-> managerId]
         IN  IF validatesUser(newUser)
             THEN [code |-> 201, users |-> Append(allUsers, newUser)]
             ELSE [code |-> 500, users |-> allUsers]

\* userController.update: the response code and the User collection after it
update(allUsers, id, role, managerId) ==
    IF findUserById(allUsers, id) = Nothing THEN [code |-> 404, users |-> allUsers]
    ELSE LET changed(user) == [user EXCEPT !.role = role, !.managerId = managerId]
         IN  IF validatesUser(changed(findUserById(allUsers, id)))
             THEN [code |-> 200,
                   users |-> [i \in DOMAIN allUsers |->
                                 IF allUsers[i].id = id THEN changed(allUsers[i])
                                 ELSE allUsers[i]]]
             ELSE [code |-> 500, users |-> allUsers]

\* User.findByIdAndDelete(id)
findByIdAndDelete(allUsers, id) ==
    SelectSeq(allUsers, LAMBDA u : u.id # id)

\* Expense.deleteMany({ userId: id })
deleteMany(collection, id) ==
    SelectSeq(collection, LAMBDA e : e.userId # id)


\* an id is referenced when a stored document names it
Referenced(id) ==
    \/ \E i \in DOMAIN users : users[i].managerId = id
    \/ settings # Nothing /\ settings.hybridRule.approverId = id
    \/ \E e \in DOMAIN expenses :
           \/ expenses[e].userId = id
           \/ \E i \in DOMAIN expenses[e].approvalChain :
                  expenses[e].approvalChain[i].approverId = id

\* the accounts the next _id can be: an ObjectId is new, so no user holds it
\* and no stored document names it
FreshAccounts ==
    {k \in 1..MaxAccounts : UserId(k) \notin idsOf(users) /\ ~Referenced(UserId(k))}

\* req.body.role of a signup or an update: two roles of the enum, and the
\* two roles of the default chain that the enum lacks
RoleInputs == {"Admin", "Employee", "Finance", "Director"}

\* ids a request can name: the users', and one nobody holds
KnownIds == idsOf(users) \cup {"u9"}

\* POST /api/auth/signup
Signup(role, managerId, isAdminCreation) ==
    /\ Len(users) < MaxAccounts
    /\ FreshAccounts # {}
    /\ LET r == signup(users, UserId(Min(FreshAccounts)), role, managerId, isAdminCreation)
       IN  /\ users' = r.users
           /\ res' = Response("signup", r.code)
    /\ UNCHANGED <<settings, expenses, nextId, now, trail, built, reqs, origin>>

\* faulty variant: a manager reassignment also hands the Pending expenses of
\* the user to the new manager
UpdateUser_Reassign(id, role, managerId) ==
    /\ LET r == update(users, id, role, managerId)
       IN  /\ users' = r.users
           /\ res' = Response("updateUser", r.code)
           /\ expenses' =
                  [e \in DOMAIN expenses |->
                      IF /\ r.code = 200 /\ managerId # NULL
                         /\ expenses[e].userId = id /\ expenses[e].status = "Pending"
                      THEN [expenses[e] EXCEPT
                               !.approvalChain[expenses[e].currentApproverIndex + 1].approverId
                                   = managerId]
                      ELSE expenses[e]]
    /\ UNCHANGED <<settings, nextId, now, trail, built, reqs, origin>>

\* PUT /api/users/:id
UpdateUser(id, role, managerId) ==
    /\ LET r == update(users, id, role, managerId)
       IN  /\ users' = r.users
           /\ res' = Response("updateUser", r.code)
    /\ UNCHANGED <<settings, expenses, nextId, now, trail, built, reqs, origin>>

\* DELETE /api/users/:id
DeleteUser(id) ==
    /\ IF findUserById(users, id) = Nothing
       THEN /\ res' = Response("deleteUser", 404)
            /\ UNCHANGED <<users, expenses>>
       ELSE /\ users' = findByIdAndDelete(users, id)
            /\ expenses' = deleteMany(expenses, id)
            /\ res' = Response("deleteUser", 200)
    /\ UNCHANGED <<settings, nextId, now, trail, built, reqs, origin>>

\* the approvalRules of a PUT /api/settings: the default chain or a chain of
\* two steps, a threshold inside or outside 1..100, any override approver
AdminPolicies ==
    [sequentialChain : {DefaultSettings.sequentialChain, Template(2)},
     percentageRule  : {[enabled |-> FALSE, threshold |-> 60],
                        [enabled |-> TRUE,  threshold |-> 60],
                        [enabled |-> TRUE,  threshold |-> 0]},
     hybridRule      : {[enabled |-> FALSE, approverId |-> NULL]}
                           \cup {[enabled |-> TRUE, approverId |-> a] :
                                    a \in KnownIds \cup {NULL}}]

InitUsers ==
    /\ users = <<>>
    /\ settings = Nothing
    /\ expenses = <<>>
    /\ nextId = 1
    /\ now = 1
    /\ res = Response("none", 0)
    /\ trail = [id \in ExpenseIds |-> [n |-> 0, plain |-> FALSE]]
    /\ built = Nothing
    /\ reqs = <<>>
    /\ origin = Nothing

\* the approvalRules of the model's settings updates: a chain of two steps
\* with both rules off, or with both on
UserPolicies ==
    { [sequentialChain |-> Template(2),
       percentageRule  |-> [enabled |-> FALSE, threshold |-> 60],
       hybridRule      |-> [enabled |-> FALSE, approverId |-> NULL]],
      [sequentialChain |-> Template(2),
       percentageRule  |-> [enabled |-> TRUE, threshold |-> 60],
       hybridRule      |-> [enabled |-> TRUE, approverId |-> "u1"]] }

NextUsers ==
    \/ \E role \in RoleInputs, managerId \in idsOf(users) \cup {NULL},
          isAdminCreation \in BOOLEAN : Signup(role, managerId, isAdminCreation)
    \/ \E id \in KnownIds, role \in RoleInputs, managerId \in idsOf(users) \cup {NULL} :
          UpdateUser(id, role, managerId)
    \/ GetSettings
    \/ \E p \in UserPolicies : UpdateSettings(p)
    \/ \E userId \in KnownIds, status \in {NULL, "Rejected"} : Submit(userId, status)
    \/ \E expenseId \in ExpenseIds, action \in ConcActions, approverId \in KnownIds :
          Approve(expenseId, action, ConcComment, approverId)

SpecUsers == InitUsers /\ [][NextUsers]_vars


\* C16: an expense stored with status Approved or Rejected keeps that status
\* through every decision, settings update and user update that follows.
C16_FinalStatusTerminal ==
    [][\A e \in DOMAIN expenses, f \in DOMAIN expenses' :
          ( /\ expenses[e].status \in {"Approved", "Rejected"}
            /\ expenses'[f].id = expenses[e].id ) =>
              expenses'[f].status = expenses[e].status]_vars

\* a user has just been updated while an expense that decisions finalized as
\* Approved is stored, the override approver being that user
C16_Witness ==
    /\ res = Response("updateUser", 200)
    /\ settings # Nothing
    /\ settings.hybridRule.enabled
    /\ \E e \in DOMAIN expenses :
           /\ expenses[e].status = "Approved"
           /\ trail[expenses[e].id].n > 0
    /\ \E i \in DOMAIN users : users[i].id = "u1" /\ users[i].role = "Employee"

\* C17: a step whose status, comment or timestamp has been written is never
\* changed again, and a step changes only in a decision made by the approver
\* the step names.
C17_StepWrittenOnce ==
    [][\A e \in DOMAIN expenses, f \in DOMAIN expenses' :
          expenses'[f].id = expenses[e].id =>
              \A i \in DOMAIN expenses[e].approvalChain :
                  LET old == expenses[e].approvalChain[i]
                      new == expenses'[f].approvalChain[i]
                  IN  /\ ~Untouched(old) => new = old
                      /\ new # old =>
                             \E action \in ConcActions :
                                 Approve(expenses[e].id, action, ConcComment,
                                         old.approverId)]_vars

\* both steps of a chain of two have been written, one decision after the other
C17_Witness ==
    \E e \in DOMAIN expenses :
        /\ Len(expenses[e].approvalChain) = 2
        /\ expenses[e].approvalChain[1].status = "Approved"
        /\ expenses[e].approvalChain[2].status = "Rejected"
        /\ expenses[e].approvalChain[1].approvedAt < expenses[e].approvalChain[2].approvedAt

\* C18: the approval chain of a stored expense keeps its length, and every
\* step its stepName and approverId, through every decision, settings update
\* and user update.
C18_ChainFixed ==
    [][\A e \in DOMAIN expenses, f \in DOMAIN expenses' :
          expenses'[f].id = expenses[e].id =>
              /\ Len(expenses'[f].approvalChain) = Len(expenses[e].approvalChain)
              /\ \A i \in DOMAIN expenses[e].approvalChain :
                     /\ expenses'[f].approvalChain[i].stepName =
                            expenses[e].approvalChain[i].stepName
                     /\ expenses'[f].approvalChain[i].approverId =
                            expenses[e].approvalChain[i].approverId]_vars

\* a decision has been written for an expense whose submitter has since been
\* given another manager than the approver of the chain's Manager step, under
\* settings changed since the submission
C18_Witness ==
    \E e \in DOMAIN expenses, s \in DOMAIN users :
        /\ users[s].id = expenses[e].userId
        /\ users[s].managerId # expenses[e].approvalChain[1].approverId
        /\ users[s].managerId # NULL
        /\ trail[expenses[e].id].n > 0
        /\ Len(expenses[e].approvalChain) = 1
        /\ settings # Nothing
        /\ Len(settings.sequentialChain) = 2


\* the first user of the directory holding the role, as an id (NULL if none)
FirstWithRole(role) ==
    IF \E i \in DOMAIN users : users[i].role = role
    THEN users[Min({i \in DOMAIN users : users[i].role = role})].id
    ELSE NULL

\* C19: the signup and user-update operations put users of role Finance and
\* Director in the directory when an Admin asks for them, and under the
\* default policy a submission by a user whose manager, a Finance user and a
\* Director user are in the directory stores a chain of exactly three steps,
\* Direct Manager, Finance Reviewer, Director/CFO, approved by the manager,
\* the Finance user and the Director user in that order.
C19_DefaultChainOfThree ==
    [][/\ \A role \in {"Finance", "Director"}, managerId \in idsOf(users) \cup {NULL} :
              /\ (users # <<>> /\ Signup(role, managerId, TRUE)) =>
                     \E i \in DOMAIN users' : users'[i].role = role
              /\ \A id \in idsOf(users) :
                     UpdateUser(id, role, managerId) =>
                         \E i \in DOMAIN users' : users'[i].id = id /\ users'[i].role = role
       /\ \A userId \in idsOf(users) :
              ( /\ settings = DefaultSettings
                /\ findUserById(users, findUserById(users, userId).managerId) # Nothing
                /\ FirstWithRole("Finance") # NULL
                /\ FirstWithRole("Director") # NULL
                /\ Submit(userId, NULL) ) =>
                  /\ res' = Response("submit", 201)
                  /\ Len(expenses') = Len(expenses) + 1
                  /\ LET chain == expenses'[Len(expenses')].approvalChain
                     IN  /\ Len(chain) = 3
                         /\ chain[1].stepName = "Direct Manager"
                         /\ chain[1].approverId = findUserById(users, userId).managerId
                         /\ chain[2].stepName = "Finance Reviewer"
                         /\ chain[2].approverId = FirstWithRole("Finance")
                         /\ chain[3].stepName = "Director/CFO"
                         /\ chain[3].approverId = FirstWithRole("Director")]_vars

-----------------------------------------------------------------------------
(* The policy store under settings updates, signups and user deletions *)

NextPolicy ==
    \/ \E role \in {"Admin", "Employee"}, managerId \in idsOf(users) \cup {NULL} :
          Signup(role, managerId, TRUE)
    \/ \E id \in KnownIds : DeleteUser(id)
    \/ GetSettings
    \/ \E p \in AdminPolicies : UpdateSettings(p)

SpecPolicy == InitUsers /\ [][NextPolicy]_vars

\* C20: in the stored policy, an enabled override rule names the id of an
\* existing user, and an enabled percentage rule has a threshold between 1
\* and 100.
C20_PolicyValid ==
    settings # Nothing =>
        /\ settings.hybridRule.enabled =>
               settings.hybridRule.approverId \in idsOf(users)
        /\ settings.percentageRule.enabled =>
               settings.percentageRule.threshold \in 1..100

-----------------------------------------------------------------------------
(* Settings changed between a submission and its decisions.  origin keeps
   the settings the expense was submitted under. *)

\* the settings an admin switches between: one chain template, every rule
FreshPolicies == {p \in Policies : p.sequentialChain = Template(MaxChain)}

\* POST /api/expenses/submit, keeping the settings the handler loaded
SubmitUnder(userId) ==
    /\ nextId <= MaxExpenses
    /\ LET r == submit(settings, users, nextId, Body(userId, NULL), now)
       IN  /\ res' = Response("submit", r.code)
           /\ IF r.doc # Nothing
              THEN /\ expenses' = Append(expenses, r.doc)
                   /\ nextId' = nextId + 1
                   /\ origin' = settings
              ELSE UNCHANGED <<expenses, nextId, origin>>
    /\ UNCHANGED <<users, settings, now, trail, built, reqs>>

NextFresh ==
    \/ \E p \in FreshPolicies : UpdateSettings(p)
    \/ \E userId \in {"u2", "u3"} : SubmitUnder(userId)
    \/ \E expenseId \in ExpenseIds, action \in ConcActions, approverId \in ConcApprovers :
          Approve(expenseId, action, ConcComment, approverId)

SpecFresh == Init /\ [][NextFresh]_vars

\* C21: a decision is evaluated against the settings stored when it is
\* processed, not those the expense was submitted under: an Approved decision by
\* the current approver finalizes the expense exactly when the stored settings
\* make that approver the override approver, or the step is the last one, or
\* the stored percentage rule is enabled and met; otherwise the expense stays
\* Pending.
C21_CurrentPolicyDecides ==
    [][\A expenseId \in ExpenseIds, approverId \in ConcApprovers :
          LET expense == findOne(expenses, expenseId)
          IN  (/\ IsCurrentApprover(expense, approverId)
               /\ Approve(expenseId, "Approved", ConcComment, approverId))
              => LET after    == findOne(expenses', expenseId)
                     n        == Len(expense.approvalChain)
                     override == /\ settings.hybridRule.enabled
                                 /\ settings.hybridRule.approverId = approverId
                     last     == expense.currentApproverIndex + 1 >= n
                     met      == /\ settings.percentageRule.enabled
                                 /\ approvedCount(after) * 100
                                        >= settings.percentageRule.threshold * n
                 IN  /\ res'.code = 200
                     /\ after.status = IF override \/ last \/ met THEN "Approved"
                                       ELSE "Pending"]_vars

\* the expense was submitted with both rules disabled, the override rule was
\* enabled afterwards, and the first decision has finalized the expense
C21_Witness ==
    /\ origin # Nothing
    /\ ~origin.hybridRule.enabled
    /\ ~origin.percentageRule.enabled
    /\ settings.hybridRule.enabled
    /\ res = Response("approve", 200)
    /\ \E i \in DOMAIN expenses :
          /\ expenses[i].status = "Approved"
          /\ expenses[i].approvalChain[1].status = "Approved"
          /\ expenses[i].approvalChain[1].approverId = settings.hybridRule.approverId
          /\ LaterUntouched(expenses[i], 1)

-----------------------------------------------------------------------------
(* A user deletion interleaved with submissions.  Each handler is cut at its
   awaits on the database; reqs holds the requests in flight, each with its
   operation, its position, the user it names and the document it built. *)

InitDelete ==
    /\ users = InitialUsers
    /\ settings \in {p \in Policies : /\ p.sequentialChain = Template(1)
                                      /\ ~p.hybridRule.enabled}
    /\ expenses = <<>>
    /\ nextId = 1
    /\ now = 1
    /\ res = Response("none", 0)
    /\ trail = [id \in ExpenseIds |-> [n |-> 0, plain |-> FALSE]]
    /\ built = Nothing
    /\ reqs = <<>>
    /\ origin = Nothing

\* submit from the request to await newExpense.save(): the settings and the
\* directory are read, the document and its chain are built
SubmitLoad(userId) ==
    /\ nextId <= MaxExpenses
    /\ Len(reqs) < MaxRequests
    /\ LET r == submit(settings, users, nextId, Body(userId, NULL), now)
       IN  IF r.doc = Nothing
           THEN /\ res' = Response("submit", r.code)
                /\ UNCHANGED <<reqs, nextId>>
           ELSE /\ reqs' = Append(reqs, [op |-> "submit", pc |-> "save",
                                         id |-> userId, doc |-> r.doc])
                /\ nextId' = nextId + 1
                /\ UNCHANGED res
    /\ UNCHANGED <<users, settings, expenses, now, trail, built, origin>>

\* newExpense.save() resolves; the handler answers 201
SubmitSave(r) ==
    /\ reqs[r].op = "submit"
    /\ reqs[r].pc = "save"
    /\ expenses' = Append(expenses, reqs[r].doc)
    /\ reqs' = [reqs EXCEPT ![r].pc = "done"]
    /\ res' = Response("submit", 201)
    /\ UNCHANGED <<users, settings, nextId, now, trail, built, origin>>

\* delete from the request to await Expense.deleteMany: findByIdAndDelete has
\* removed the user, or found none and the handler answered 404
DeleteLoad(id) ==
    /\ Len(reqs) < MaxRequests
    /\ IF findUserById(users, id) = Nothing
       THEN /\ res' = Response("deleteUser", 404)
            /\ UNCHANGED <<users, reqs>>
       ELSE /\ users' = findByIdAndDelete(users, id)
            /\ reqs' = Append(reqs, [op |-> "delete", pc |-> "expenses",
                                     id |-> id, doc |-> Nothing])
            /\ UNCHANGED res
    /\ UNCHANGED <<settings, expenses, nextId, now, trail, built, origin>>

\* Expense.deleteMany resolves; the handler answers 200
DeleteExpenses(r) ==
    /\ reqs[r].op = "delete"
    /\ reqs[r].pc = "expenses"
    /\ expenses' = deleteMany(expenses, reqs[r].id)
    /\ reqs' = [reqs EXCEPT ![r].pc = "done"]
    /\ res' = Response("deleteUser", 200)
    /\ UNCHANGED <<users, settings, nextId, now, trail, built, origin>>

NextDelete ==
    \/ \E userId \in UserIds : SubmitLoad(userId)
    \/ \E r \in DOMAIN reqs : SubmitSave(r)
    \/ \E id \in UserIds : DeleteLoad(id)
    \/ \E r \in DOMAIN reqs : DeleteExpenses(r)

SpecDelete == InitDelete /\ [][NextDelete]_vars

\* C22: once a user deletion has answered 200, the store holds no expense
\* whose userId is the deleted user, however the deletion was interleaved with
\* submissions by that user; and the deletion leaves the expenses of every
\* other user as they were.
C22_DeletionRemovesExpenses ==
    [][/\ \A r \in DOMAIN reqs' :
             (reqs'[r].op = "delete" /\ reqs'[r].pc = "done")
                 => \A i \in DOMAIN expenses' : expenses'[i].userId # reqs'[r].id
       /\ \A r \in DOMAIN reqs :
             DeleteExpenses(r)
                 => \A i \in DOMAIN expenses :
                       expenses[i].userId # reqs[r].id
                           => \E j \in DOMAIN expenses' : expenses'[j] = expenses[i]]_vars

-----------------------------------------------------------------------------
(* Claims about the shape of a Pending expense, stale decisions and ties *)

\* the positions (1-based) of the steps with status Pending
PendingSteps(expense) ==
    {k \in DOMAIN expense.approvalChain : expense.approvalChain[k].status = "Pending"}

PassedApprover(expense, approverId) ==
    /\ expense # Nothing
    /\ expense.status = "Pending"
    /\ \E k \in DOMAIN expense.approvalChain :
          /\ k <= expense.currentApproverIndex
          /\ expense.approvalChain[k].approverId = approverId

\* C24: a decision sent by the approver of a step that has already been
\* passed (a stale decision, or the same decision sent again) is answered 403
\* and changes no expense, whatever chain createApprovalChain built.
C24_StaleDecisionRejected ==
    [][\A expenseId \in ExpenseIds, action \in Actions, comment \in Comments,
          approverId \in ApproverIds :
          (/\ PassedApprover(findOne(expenses, expenseId), approverId)
           /\ Approve(expenseId, action, comment, approverId))
              => /\ res'.code = 403
                 /\ expenses' = expenses]_vars


\* C25: however two decisions on the same expense interleave, no write
\* replaces an Approved or Rejected status by another status, no persisted
\* expense is Rejected without a Rejected step, and none is Approved or
\* Rejected with currentApproverIndex below the length of its chain.
C25_InterleavedDecisionsConsistent ==
    [][\A i \in DOMAIN expenses' :
          /\ (i \in DOMAIN expenses /\ expenses[i].status \in {"Approved", "Rejected"})
                => expenses'[i].status = expenses[i].status
          /\ expenses'[i].status = "Rejected"
                => \E k \in DOMAIN expenses'[i].approvalChain :
                       expenses'[i].approvalChain[k].status = "Rejected"
          /\ expenses'[i].status \in {"Approved", "Rejected"}
                => expenses'[i].currentApproverIndex = Len(expenses'[i].approvalChain)]_vars


\* the stored percentage rule is enabled and met once one more step is Approved
PercentageMet(expense) ==
    /\ settings.percentageRule.enabled
    /\ (approvedCount(expense) + 1) * 100
           >= settings.percentageRule.threshold * Len(expense.approvalChain)

\* C26: when the override approver approves the current step and the step is
\* also the last one or the percentage threshold is also met, the outcome is
\* that of the override rule alone: the decided step is marked, the status is
\* Approved, currentApproverIndex is the chain length, and the later steps are
\* untouched.  (The handler tests override, then exhaustion, then percentage,
\* each after the first only while the status is still Pending.)
C26_TieGivesOverrideOutcome ==
    [][\A expenseId \in ExpenseIds, comment \in Comments, approverId \in ApproverIds :
          LET expense == findOne(expenses, expenseId)
          IN  (/\ IsCurrentApprover(expense, approverId)
               /\ settings # Nothing
               /\ settings.hybridRule.enabled
               /\ settings.hybridRule.approverId = approverId
               /\ \/ expense.currentApproverIndex + 1 = Len(expense.approvalChain)
                  \/ PercentageMet(expense)
               /\ Approve(expenseId, "Approved", comment, approverId))
              => /\ res'.code = 200
                 /\ LaterUntouched(findOne(expenses', expenseId),
                                   expense.currentApproverIndex + 1)
                 /\ findOne(expenses', expenseId) =
                       [expense EXCEPT
                           !.status = "Approved",
                           !.currentApproverIndex = Len(expense.approvalChain),
                           !.approvalChain[expense.currentApproverIndex + 1] =
                               [@ EXCEPT !.status = "Approved", !.comment = comment,
                                         !.approvedAt = now]]]_vars

\* the override approver has just approved the second of three steps, which
\* also met the percentage threshold
C26_Witness ==
    /\ res = Response("approve", 200)
    /\ settings # Nothing
    /\ settings.hybridRule.enabled
    /\ settings.percentageRule.enabled
    /\ settings.percentageRule.threshold = 60
    /\ \E i \in DOMAIN expenses :
          /\ expenses[i].status = "Approved"
          /\ Len(expenses[i].approvalChain) = 3
          /\ expenses[i].currentApproverIndex = 3
          /\ expenses[i].approvalChain[1].status = "Approved"
          /\ expenses[i].approvalChain[2].status = "Approved"
          /\ expenses[i].approvalChain[2].approverId = settings.hybridRule.approverId
          /\ Len(expenses[i].approvalChain) >= 2
          /\ expenses[i].approvalChain[2].approvedAt = now - 1
          /\ Untouched(expenses[i].approvalChain[3])

-----------------------------------------------------------------------------
(* Decisions on two expenses.  The store holds the expenses two submissions
   have left; the decisions are cut at their awaits as in SpecConc, each
   request naming its expense.  origin keeps the store as it was before any
   decision. *)

\* the ids of the two stored expenses
TwoIds == {1, 2}

\* the store after u3 and then u2 have each submitted an expense under rule
TwoExpenses(rule) ==
    << submit(rule, InitialUsers, 1, Body("u3", NULL), 1).doc,
       submit(rule, InitialUsers, 2, Body("u2", NULL), 1).doc >>

InitTwo ==
    /\ users = InitialUsers
    /\ settings \in {p \in Policies : /\ p.sequentialChain = Template(2)
                                      /\ ~p.percentageRule.enabled}
    /\ expenses = TwoExpenses(settings)
    /\ nextId = 3
    /\ now = 1
    /\ res = Response("submit", 201)
    /\ trail = [id \in ExpenseIds |-> [n |-> 0, plain |-> FALSE]]
    /\ built = Nothing
    /\ reqs = <<>>
    /\ origin = Nothing

\* a PUT /api/expenses/approve/:expenseId reaches the handler, which awaits
\* Company.findOne
ArriveAt(expenseId, action, approverId) ==
    /\ Len(reqs) < MaxRequests
    /\ reqs' = Append(reqs, [expenseId |-> expenseId,
                             action |-> action, approverId |-> approverId,
                             pc |-> "settings", rule |-> Nothing, loaded |-> Nothing,
                             out |-> [code |-> 0, doc |-> Nothing]])
    /\ origin' = IF reqs = <<>> THEN expenses ELSE origin
    /\ UNCHANGED <<users, settings, expenses, nextId, now, res, trail, built>>

\* Expense.findOne({ id: expenseId }) resolves; the handler runs on its copy up
\* to a return or to the save() it awaits
LoadExpenseOf(r) ==
    /\ reqs[r].pc = "expense"
    /\ LET expense == findOne(expenses, reqs[r].expenseId)
           out == approve(reqs[r].rule, expense, reqs[r].action, ConcComment,
                          reqs[r].approverId, now)
       IN  /\ reqs' = [reqs EXCEPT ![r].pc = IF out.doc = Nothing THEN "done" ELSE "save",
                                   ![r].loaded = expense,
                                   ![r].out = out]
           /\ res' = IF out.doc = Nothing THEN Response("approve", out.code) ELSE res
    /\ now' = now + 1
    /\ UNCHANGED <<users, settings, expenses, nextId, trail, built, origin>>

NextTwo ==
    \/ \E expenseId \in TwoIds, action \in ConcActions, approverId \in ConcApprovers :
          ArriveAt(expenseId, action, approverId)
    \/ \E r \in DOMAIN reqs : LoadSettings(r)
    \/ \E r \in DOMAIN reqs : LoadExpenseOf(r)
    \/ \E r \in DOMAIN reqs : Save(r)

SpecTwo == InitTwo /\ [][NextTwo]_vars

\* C27: a decision changes no expense but the one it names; and when two
\* concurrent decisions on two different expenses have both been answered,
\* each expense is, up to the times of the decisions, what its decision
\* handled alone leaves.
C27_OtherExpensesUnchanged ==
    [][/\ \A i \in DOMAIN expenses :
             expenses'[i] # expenses[i]
                 => \E r \in DOMAIN reqs :
                        Save(r) /\ reqs[r].expenseId = expenses[i].id
       /\ (/\ Len(reqs') = MaxRequests
           /\ \A r \in DOMAIN reqs' : reqs'[r].pc = "done"
           /\ \A r, q \in DOMAIN reqs' : r # q => reqs'[r].expenseId # reqs'[q].expenseId)
              => \A r \in DOMAIN reqs' :
                    Timeless(findOne(expenses', reqs'[r].expenseId))
                        = Timeless(Alone(findOne(origin', reqs'[r].expenseId), reqs'[r]))]_vars

\* two decisions on two different expenses have both been written
C27_Witness ==
    /\ Len(reqs) = MaxRequests
    /\ \A r \in DOMAIN reqs : reqs[r].pc = "done" /\ reqs[r].out.code = 200
    /\ reqs[1].expenseId # reqs[2].expenseId
    /\ \A i \in DOMAIN expenses : expenses[i] # origin[i]

-----------------------------------------------------------------------------
(* Claims about what a submission stores and what a decision leaves alone *)

\* C28: the expense a successful submission stores has status Pending,
\* currentApproverIndex 0 and the chain createApprovalChain builds from the
\* stored policy and the directory, whatever the request body supplied.
C28_SubmissionStartsPending ==
    [][\A userId \in SubmitterIds, status \in SubmitStatuses :
          (Submit(userId, status) /\ res'.code = 201)
              => LET stored == expenses'[Len(expenses')]
                 IN  /\ stored.status = "Pending"
                     /\ stored.currentApproverIndex = 0
                     /\ stored.approvalChain =
                            createApprovalChain([userId |-> userId], settings, users).chain]_vars


\* C29: every step of a chain createApprovalChain returns has status
\* Pending, a null comment and a null decision timestamp.
C29_BuiltStepsUntouched ==
    (built # Nothing /\ built.result.error = NULL)
        => \A k \in DOMAIN built.result.chain : Untouched(built.result.chain[k])

\* createApprovalChain has returned a chain of two steps or more
C29_Witness ==
    /\ built # Nothing
    /\ built.result.error = NULL
    /\ Len(built.result.chain) >= 2
    /\ \A k \in DOMAIN built.result.chain :
          /\ built.result.chain[k].status = "Pending"
          /\ built.result.chain[k].comment = NoComment
          /\ built.result.chain[k].approvedAt = NoDate


\* C30: a decision answered 200 changes only the status, comment and
\* timestamp of the decided step, the expense status and currentApproverIndex:
\* id, userId, amount, currency, baseAmount, baseCurrency and submission time,
\* the approver and name of the decided step, and every other step are after
\* the decision what they were before.
C30_DecisionFrame ==
    [][\A expenseId \in ExpenseIds, action \in Actions, comment \in Comments,
          approverId \in ApproverIds :
          (res' = Response("approve", 200)
              /\ Approve(expenseId, action, comment, approverId))
              => LET before == findOne(expenses, expenseId)
                     after  == findOne(expenses', expenseId)
                     k      == before.currentApproverIndex + 1
                 IN  /\ after.id = before.id
                     /\ after.userId = before.userId
                     /\ after.amount = before.amount
                     /\ after.currency = before.currency
                     /\ after.baseAmount = before.baseAmount
                     /\ after.baseCurrency = before.baseCurrency
                     /\ after.submittedAt = before.submittedAt
                     /\ after =
                           [before EXCEPT
                               !.status = after.status,
                               !.currentApproverIndex = after.currentApproverIndex,
                               !.approvalChain[k] =
                                   [@ EXCEPT !.status     = after.approvalChain[k].status,
                                             !.comment    = after.approvalChain[k].comment,
                                             !.approvedAt = after.approvalChain[k].approvedAt]]]_vars

\* a decision has been written to the second step of an expense that carries
\* its amounts and its submission time
C30_Witness ==
    /\ res = Response("approve", 200)
    /\ \E i \in DOMAIN expenses :
          /\ Len(expenses[i].approvalChain) >= 2
          /\ expenses[i].approvalChain[2].approvedAt = now - 1
          /\ expenses[i].approvalChain[1].approvedAt # NoDate
          /\ expenses[i].amount = Body(expenses[i].userId, NULL).amount
          /\ expenses[i].baseAmount = Body(expenses[i].userId, NULL).baseAmount
          /\ expenses[i].submittedAt # NoDate
          /\ expenses[i].submittedAt < expenses[i].approvalChain[2].approvedAt

-----------------------------------------------------------------------------
(* Claims about signup, the pending queue and unexpected actions *)

\* C31: a signup that carries every required field and an email nobody uses
\* creates the user if and only if the directory is empty and the role is
\* Admin, or the directory is not empty and the request carries the
\* admin-creation flag; every other signup is rejected and leaves the
\* directory unchanged.
C31_SignupCreatesIff ==
    [][\A role \in RoleInputs, managerId \in idsOf(users) \cup {NULL},
          isAdminCreation \in BOOLEAN :
          (res'.op = "signup" /\ Signup(role, managerId, isAdminCreation))
              => LET allowed == \/ Len(users) = 0 /\ role = "Admin"
                                \/ Len(users) # 0 /\ isAdminCreation
                 IN  IF allowed
                     THEN /\ res'.code = 201
                          /\ Len(users') = Len(users) + 1
                          /\ users'[Len(users')].role = role
                          /\ SubSeq(users', 1, Len(users)) = users
                     ELSE /\ res'.code # 201
                          /\ users' = users]_vars


\* pendingExpenses.sort({ submittedAt: 1 }): earliest first, ties in stored order
RECURSIVE sortBySubmittedAt(_)
sortBySubmittedAt(collection) ==
    IF collection = <<>> THEN <<>>
    ELSE LET first == CHOOSE i \in DOMAIN collection :
                          \A j \in DOMAIN collection :
                              \/ collection[i].submittedAt < collection[j].submittedAt
                              \/ /\ collection[i].submittedAt = collection[j].submittedAt
                                 /\ i <= j
         IN  <<collection[first]>> \o
             sortBySubmittedAt([k \in 1..(Len(collection) - 1) |->
                                   IF k < first THEN collection[k] ELSE collection[k + 1]])

\* faulty variant: the approver of any step of the chain, not of the current one
atCurrentStep_AnyStep(exp, approverId) ==
    \E k \in DOMAIN exp.approvalChain : exp.approvalChain[k].approverId = approverId

\* exp.approvalChain[exp.currentApproverIndex]?.approverId === approverId
atCurrentStep(exp, approverId) ==
    /\ exp.currentApproverIndex + 1 \in DOMAIN exp.approvalChain
    /\ exp.approvalChain[exp.currentApproverIndex + 1].approverId = approverId

\* expenseController.getPending: the array the response carries
getPending(collection, approverId) ==
    SelectSeq(sortBySubmittedAt(SelectSeq(collection, LAMBDA exp : exp.status = "Pending")),
              LAMBDA exp : atCurrentStep(exp, approverId))

\* GET /api/expenses/pending/:approverId; built keeps the array of the response
GetPending(approverId) ==
    /\ built' = [approverId |-> approverId, result |-> getPending(expenses, approverId)]
    /\ res' = Response("getPending", 200)
    /\ UNCHANGED <<users, settings, expenses, nextId, now, trail, reqs, origin>>

NextQueue ==
    \/ NextTwo
    \/ \E approverId \in UserIds : GetPending(approverId)

SpecQueue == InitTwo /\ [][NextQueue]_vars

\* the members of a sequence
Members(seq) == {seq[i] : i \in DOMAIN seq}

\* C32: the pending queue returned for an approver holds exactly the expenses
\* with status Pending whose step at currentApproverIndex names that approver;
\* and every Pending expense is in the queue of exactly one approver id, the
\* one whose decision on it is accepted while every other id is answered 403.
C32_PendingQueue ==
    [][/\ \A approverId \in UserIds :
             GetPending(approverId)
                 => Members(built'.result) =
                       {e \in Members(expenses) :
                           /\ e.status = "Pending"
                           /\ e.approvalChain[e.currentApproverIndex + 1].approverId
                                  = approverId}
       /\ \A e \in Members(expenses) :
             e.status = "Pending"
                 => \E a \in UserIds :
                       /\ e \in Members(getPending(expenses, a))
                       /\ approve(settings, e, "Approved", ConcComment, a, now).code = 200
                       /\ \A b \in UserIds \ {a} :
                             /\ e \notin Members(getPending(expenses, b))
                             /\ approve(settings, e, "Approved", ConcComment, b, now).code
                                    = 403]_vars

\* the queue of an approver holds one of the two stored expenses, the other
\* being Pending at a step of somebody else
C32_Witness ==
    /\ built # Nothing
    /\ res = Response("getPending", 200)
    /\ Len(built.result) = 1
    /\ \E i \in DOMAIN expenses :
          /\ expenses[i].status = "Pending"
          /\ expenses[i] # built.result[1]
          /\ expenses[i].currentApproverIndex = 1


\* C33: a decision whose action is neither Approved nor Rejected never changes
\* a persisted expense: it neither advances currentApproverIndex nor finalizes.
C33_UnknownActionChangesNothing ==
    [][\A expenseId \in ExpenseIds, action \in Actions \ {"Approved", "Rejected"},
          comment \in Comments, approverId \in ApproverIds :
          (res'.op = "approve" /\ Approve(expenseId, action, comment, approverId))
              => expenses' = expenses]_vars

-----------------------------------------------------------------------------
(* Claims about progress: the count of decisions, the designated approver,
   the percentage rule at 100, the submitter and the final statuses *)

\* C34: with decisions handled one at a time, the decisions on an expense
\* that succeed are at most as many as its chain has steps, and
\* currentApproverIndex never decreases and never exceeds the chain length.
C34_DecisionsBounded ==
    [][\A i \in DOMAIN expenses :
          /\ trail'[expenses[i].id].n <= Len(expenses'[i].approvalChain)
          /\ expenses'[i].currentApproverIndex >= expenses[i].currentApproverIndex
          /\ expenses'[i].currentApproverIndex <= Len(expenses'[i].approvalChain)]_vars

\* every step of a chain of three has been decided, by three decisions
C34_Witness ==
    \E i \in DOMAIN expenses :
        /\ Len(expenses[i].approvalChain) = 3
        /\ trail[expenses[i].id].n = 3
        /\ expenses[i].currentApproverIndex = 3
        /\ expenses[i].status # "Pending"


\* the directory, a stored policy and no expense
InitAdmin ==
    /\ users = InitialUsers
    /\ settings \in UserPolicies
    /\ expenses = <<>>
    /\ nextId = 1
    /\ now = 1
    /\ res = Response("none", 0)
    /\ trail = [id \in ExpenseIds |-> [n |-> 0, plain |-> FALSE]]
    /\ built = Nothing
    /\ reqs = <<>>
    /\ origin = Nothing

\* submissions and decisions, with the admin's operations between them: role
\* change, manager reassignment, user deletion and policy update
NextAdmin ==
    \/ \E userId \in UserIds : Submit(userId, NULL)
    \/ \E expenseId \in ExpenseIds, action \in ConcActions, approverId \in UserIds :
          Approve(expenseId, action, ConcComment, approverId)
    \/ \E id \in UserIds, role \in {"Manager", "Employee"}, managerId \in {NULL, "u1"} :
          UpdateUser(id, role, managerId)
    \/ \E id \in UserIds : DeleteUser(id)
    \/ \E p \in UserPolicies : UpdateSettings(p)

SpecAdmin == InitAdmin /\ [][NextAdmin]_vars

\* C35: whatever the admin has done (role change, manager reassignment, user
\* deletion, policy update), the approver of the current step of every Pending
\* expense is a user of the directory, so that the expense can still be decided.
C35_ApproverExists ==
    \A i \in DOMAIN expenses :
        expenses[i].status = "Pending"
            => /\ expenses[i].currentApproverIndex + 1 \in DOMAIN expenses[i].approvalChain
               /\ expenses[i].approvalChain[expenses[i].currentApproverIndex + 1].approverId
                      \in idsOf(users)


(* Two stores decided in step: expenses under the stored policy, whose
   percentage rule is enabled at threshold 100, and origin under the same
   policy with the percentage rule disabled. *)

\* lengths of the chains compared
HundredLengths == {1, 2, 3, 7}

HundredPolicies ==
    [sequentialChain : {ManagerChain(n) : n \in HundredLengths},
     percentageRule  : {[enabled |-> TRUE, threshold |-> 100]},
     hybridRule      : {[enabled |-> FALSE, approverId |-> NULL]}]

\* the policy with its percentage rule disabled
PercentageOff(rule) == [rule EXCEPT !.percentageRule.enabled = FALSE]

InitHundred ==
    /\ users = InitialUsers
    /\ settings \in HundredPolicies
    /\ expenses = <<>>
    /\ nextId = 1
    /\ now = 1
    /\ res = Response("none", 0)
    /\ trail = [id \in ExpenseIds |-> [n |-> 0, plain |-> FALSE]]
    /\ built = Nothing
    /\ reqs = <<>>
    /\ origin = <<>>

\* POST /api/expenses/submit, handled under each of the two policies
SubmitBoth(userId) ==
    /\ nextId <= MaxExpenses
    /\ LET r == submit(settings, users, nextId, Body(userId, NULL), now)
           q == submit(PercentageOff(settings), users, nextId, Body(userId, NULL), now)
       IN  /\ res' = Response("submit", r.code)
           /\ expenses' = IF r.doc # Nothing THEN Append(expenses, r.doc) ELSE expenses
           /\ origin' = IF q.doc # Nothing THEN Append(origin, q.doc) ELSE origin
           /\ nextId' = IF r.doc # Nothing \/ q.doc # Nothing THEN nextId + 1 ELSE nextId
    /\ UNCHANGED <<users, settings, now, trail, built, reqs>>

\* PUT /api/expenses/approve/:expenseId, handled under each of the two policies
ApproveBoth(expenseId, action, approverId) ==
    /\ LET expense == findOne(expenses, expenseId)
           other   == findOne(origin, expenseId)
           r == approve(settings, expense, action, ConcComment, approverId, now)
           q == approve(PercentageOff(settings), other, action, ConcComment,
                        approverId, now)
       IN  /\ res' = Response("approve", r.code)
           /\ expenses' = IF r.doc # Nothing THEN save(expenses, expense, r.doc)
                          ELSE expenses
           /\ origin' = IF q.doc # Nothing THEN save(origin, other, q.doc) ELSE origin
           /\ now' = IF r.doc # Nothing \/ q.doc # Nothing THEN now + 1 ELSE now
    /\ UNCHANGED <<users, settings, nextId, trail, built, reqs>>

NextHundred ==
    \/ \E userId \in {"u3", "u1"} : SubmitBoth(userId)
    \/ \E expenseId \in ExpenseIds, action \in Actions \ {"Escalated"},
          approverId \in ConcApprovers : ApproveBoth(expenseId, action, approverId)

SpecHundred == InitHundred /\ [][NextHundred]_vars

\* C36: with the override rule disabled, deciding under the percentage rule
\* enabled at threshold 100 and deciding with the percentage rule disabled
\* give, after every submission and every decision, the same status, the same
\* currentApproverIndex and the same step statuses.
C36_HundredIsDisabled ==
    /\ Len(origin) = Len(expenses)
    /\ \A i \in DOMAIN expenses :
          /\ origin[i].status = expenses[i].status
          /\ origin[i].currentApproverIndex = expenses[i].currentApproverIndex
          /\ Len(origin[i].approvalChain) = Len(expenses[i].approvalChain)
          /\ \A k \in DOMAIN expenses[i].approvalChain :
                origin[i].approvalChain[k].status = expenses[i].approvalChain[k].status

\* under the threshold of 100 a chain of seven steps has been approved step
\* by step, the sixth approval having left the expense Pending
C36_Witness ==
    /\ settings.percentageRule.enabled
    /\ settings.percentageRule.threshold = 100
    /\ \E i \in DOMAIN expenses :
          /\ Len(expenses[i].approvalChain) = 7
          /\ approvedCount(expenses[i]) = 7
          /\ expenses[i].status = "Approved"
          /\ expenses[i].approvalChain[7].approvedAt = 7


\* C37: the submitter of an expense is the approver of no step of that
\* expense's chain, whatever the directory and the policy.
C37_SubmitterNotApprover ==
    \A i \in DOMAIN expenses :
        \A k \in DOMAIN expenses[i].approvalChain :
            expenses[i].approvalChain[k].approverId # expenses[i].userId


\* the positions (1-based) of the steps with the given status
StepsWith(expense, status) ==
    {k \in DOMAIN expense.approvalChain : expense.approvalChain[k].status = status}

\* C38: an expense is Approved only if at least one of its steps is Approved
\* and none is Rejected; it is Rejected only if exactly one step is Rejected
\* and that step is the last one that was decided.
C38_StatusFollowsSteps ==
    \A i \in DOMAIN expenses :
        /\ expenses[i].status = "Approved"
              => /\ StepsWith(expenses[i], "Approved") # {}
                 /\ StepsWith(expenses[i], "Rejected") = {}
        /\ expenses[i].status = "Rejected"
              => \E k \in DOMAIN expenses[i].approvalChain :
                     /\ StepsWith(expenses[i], "Rejected") = {k}
                     /\ \A j \in DOMAIN expenses[i].approvalChain :
                           expenses[i].approvalChain[j].approvedAt
                               <= expenses[i].approvalChain[k].approvedAt

-----------------------------------------------------------------------------
(* The client's startup: setupApp and its retry loop around fetchAllData.
   built is the state of the call: where it stands (pc), the loop's attempt
   and success, the fetches made and the delays waited, in milliseconds;
   origin is the client's cache (allUsers, allExpenses, companySettings); now
   is the client's clock, in milliseconds after the call. *)

\* const MAX_RETRIES = 5
MAX_RETRIES == 5

\* faulty variant: the exponent is one less
delay_OneLess(attempt) == Pow2(attempt - 1) * 500

\* const delay = Math.pow(2, attempt) * 500
delay(attempt) == Pow2(attempt) * 500

\* let allUsers = []; let allExpenses = []; let companySettings = {}
EmptyCache == [allUsers |-> <<>>, allExpenses |-> <<>>, companySettings |-> Nothing]

InitClient ==
    /\ users \in {<<>>, InitialUsers}
    /\ settings \in {Nothing} \cup UserPolicies
    /\ expenses = <<>>
    /\ nextId = 1
    /\ now = 0
    /\ res = Response("none", 0)
    /\ trail = [id \in ExpenseIds |-> [n |-> 0, plain |-> FALSE]]
    /\ built = [pc |-> "fetch", attempt |-> 0, success |-> FALSE, fetches |-> 0,
                waited |-> <<>>]
    /\ reqs = <<>>
    /\ origin = EmptyCache

\* await fetchAllData() resolves: the three requests were answered (GET
\* /api/settings creates the default settings when none exist), the loop
\* ends and the cache is updated
FetchSucceeds ==
    /\ built.pc = "fetch"
    /\ settings' = IF settings = Nothing THEN DefaultSettings ELSE settings
    /\ built' = [built EXCEPT !.pc = "ready", !.success = TRUE, !.fetches = @ + 1]
    /\ origin' = [allUsers |-> users, allExpenses |-> expenses,
                  companySettings |-> settings']
    /\ res' = Response("getSettings", 200)
    /\ UNCHANGED <<users, expenses, nextId, now, trail, reqs>>

\* await fetchAllData() rejects, one of the three requests having failed;
\* reached tells whether GET /api/settings was answered all the same.  The
\* catch counts the attempt and either starts the timer or returns.
FetchFails(reached) ==
    /\ built.pc = "fetch"
    /\ settings' = IF reached /\ settings = Nothing THEN DefaultSettings ELSE settings
    /\ built' = [built EXCEPT !.attempt = @ + 1,
                              !.fetches = @ + 1,
                              !.pc = IF built.attempt + 1 < MAX_RETRIES THEN "wait"
                                     ELSE "failed"]
    /\ res' = IF reached THEN Response("getSettings", 200) ELSE res
    /\ UNCHANGED <<users, expenses, nextId, now, trail, reqs, origin>>

\* the timer of setTimeout(resolve, delay) fires and the loop tests its condition
Retry ==
    /\ built.pc = "wait"
    /\ built.attempt < MAX_RETRIES /\ ~built.success
    /\ now' = now + delay(built.attempt)
    /\ built' = [built EXCEPT !.pc = "fetch", !.waited = Append(@, delay(built.attempt))]
    /\ UNCHANGED <<users, settings, expenses, nextId, res, trail, reqs, origin>>

NextClient ==
    \/ FetchSucceeds
    \/ \E reached \in BOOLEAN : FetchFails(reached)
    \/ Retry

SpecClient == InitClient /\ [][NextClient]_vars

\* C39: the startup loop fetches at most 5 times and not again after a fetch
\* that succeeded; after the k-th failure it waits 2^k * 500 ms before the
\* next fetch; and after the 5th failure it ends with the cached users,
\* expenses and settings as they were.
C39_RetryLoop ==
    [][/\ built'.fetches <= 5
       /\ built.success => built'.fetches = built.fetches
       /\ built'.fetches = built.fetches + 1
             => /\ Len(built.waited) = built.attempt
                /\ \A k \in 1..built.attempt :
                      /\ built.waited[k] = 2^k * 500
                      /\ k <= 4
       /\ built'.pc = "failed"
             => /\ built'.fetches = 5
                /\ ~built'.success
                /\ origin' = EmptyCache
       /\ built'.fetches = 5 /\ ~built'.success => built'.pc = "failed"]_vars

\* the loop has given up after five failures and the four waits between them
C39_Witness ==
    /\ built.pc = "failed"
    /\ built.fetches = 5
    /\ built.waited = <<1000, 2000, 4000, 8000>>
    /\ now = 15000
    /\ origin = EmptyCache

====
